---- MODULE Spec2Model ----
(***************************************************************************)
(* Turn-resolution engine of text_game_engine: the two-phase resolve_turn  *)
(* protocol (lease claim, LLM call, validated commit by row-version CAS)   *)
(* over the relational store, and the emulator's narration decoration.     *)
(*                                                                         *)
(* The store is the committed content of the tables.  A transaction that   *)
(* raises is rolled back (SQLAlchemyUnitOfWork.__exit__), so an action     *)
(* that models a failed transaction leaves every table unchanged.          *)
(* Phase C runs as two steps: its reads (token, campaign, player) and      *)
(* then its writes with the CAS and the commit; other transactions may     *)
(* commit between the two, which is what the CAS guards against.           *)
(***************************************************************************)
EXTENDS Integers, Sequences, FiniteSets, TLC

\* ---------------------------------------------------------------- bounds

\* The clock advances MaxTicks times, by one lease each time.
MaxTicks == 2

\* max_conflict_retries ranges over 0..MaxRetriesSetting (the default is 1).
MaxRetriesSetting == 1

\* At most MaxOps calls are made beside resolve_turn.
MaxOps == 3

\* A caller that resolves one turn after the other stops calling once Phase A
\* has run MaxTurns times for it.
MaxTurns == 2

\* rewind_to_turn is called at most MaxRewinds times.
MaxRewinds == 2

\* A memory search hands over at most MaxHits hits.
MaxHits == 2

\* ------------------------------------------------------- program constants

lease_ttl_seconds == 90

TickSeconds == lease_ttl_seconds

MIN_TIMER_DELAY == 30

\* The default of GameEngine's max_conflict_retries.
max_conflict_retries_default == 1

\* ------------------------------------------------------------------ values

\* Optional values (Python's None): None is the empty set, Some(x) is {x}.
None == {}

Some(x) == {x}

TheValue(s) == CHOOSE x \in s : TRUE

EmptyMap == [key \in {} |-> ""]

\* JSON null inside a patch.
JsonNull == "null"

CampaignIds == {"campaign-1"}

\* The concurrent resolve_turn invocations, in the order they are made.
CallOrder == <<"call-1", "call-2">>

Calls == {CallOrder[i] : i \in DOMAIN CallOrder}

\* Actors are interchangeable: a call is made by an actor that has played
\* already or by the first that has not.
ActorOrder == <<"actor-1", "actor-2">>

\* (record_player_turn, allow_timer_instruction) as the callers set them:
\* the defaults, and a fired timer's system turn.
TurnFlags == {<<TRUE, TRUE>>, <<FALSE, FALSE>>}

\* dump_json / parse_json_dict: a JSON column holds the text of an object.
\* dump_json writes the text of an object; parse_json_dict reads a text and
\* yields the empty object for an empty text or a text that is no object.
dump_json(data) == [kind |-> "object", json |-> data]

EmptyText == [kind |-> "empty", json |-> EmptyMap]

parse_json_dict(text) ==
    IF text.kind = "object" THEN text.json ELSE EmptyMap

\* The objects nested in a state or a patch; a nested object is held by its
\* text.
NestedObjects == {("a" :> "1"), ("b" :> "2"), ("a" :> "1") @@ ("b" :> "2")}

ObjectText(object) == ToString(object)

ObjectOf(text) == CHOOSE object \in NestedObjects : ObjectText(object) = text

ObjectTexts == {ObjectText(object) : object \in NestedObjects}

\* apply_patch that merges an object of the patch into the object the base
\* holds for the key.
apply_patch_Deep(base, patch) ==
    LET removed == {key \in DOMAIN patch : patch[key] = JsonNull}
        keys    == (DOMAIN base \cup DOMAIN patch) \ removed
    IN  [key \in keys |->
            IF key \notin DOMAIN patch THEN base[key]
            ELSE IF key \in DOMAIN base /\ base[key] \in ObjectTexts
                    /\ patch[key] \in ObjectTexts
            THEN ObjectText(ObjectOf(patch[key]) @@ ObjectOf(base[key]))
            ELSE patch[key]]

\* apply_patch: a shallow merge; a null value removes the key.
apply_patch(base, patch) ==
    LET removed == {key \in DOMAIN patch : patch[key] = JsonNull}
        keys    == (DOMAIN base \cup DOMAIN patch) \ removed
    IN  [key \in keys |-> IF key \in DOMAIN patch THEN patch[key] ELSE base[key]]

Max(a, b) == IF a >= b THEN a ELSE b

\* The outputs the LLM port may return (tests/test_engine_flow.py).
SceneOutput ==
    [narration           |-> <<"A scene happens.">>,
     state_update        |-> ("k" :> "v"),
     summary_update      |-> None,
     xp_awarded          |-> 0,
     player_state_update |-> EmptyMap,
     scene_image_prompt  |-> Some("describe scene"),
     timer_instruction   |-> Some([delay_seconds |-> 60, event_text |-> "Boom",
                                   interruptible |-> TRUE, interrupt_action |-> None]),
     character_updates   |-> EmptyMap,
     give_item           |-> None]

RoadOutput ==
    [narration           |-> <<"You scout the old road.">>,
     state_update        |-> EmptyMap,
     summary_update      |-> Some("The party moved closer to the city."),
     xp_awarded          |-> 2,
     player_state_update |-> ("location" :> "old road"),
     scene_image_prompt  |-> None,
     timer_instruction   |-> None,
     character_updates   |-> EmptyMap,
     give_item           |-> None]

LLMOutputs == {SceneOutput, RoadOutput}

NoOutput == [narration |-> <<>>]

VARIABLES
    now,                  \* the clock read by self._clock()
    campaigns,            \* tge_campaigns: id -> row
    players,              \* tge_players: <<campaign_id, actor_id>> -> row
    inflight,             \* tge_inflight_turns: <<campaign_id, actor_id>> -> row
    turns,                \* tge_turns, in id order
    snapshots,            \* tge_snapshots
    timers,               \* tge_timers, in creation order
    outbox,               \* tge_outbox_events
    max_conflict_retries, \* GameEngine._max_conflict_retries
    _actor_resolver,      \* GameEngine._actor_resolver
    before_phase_c,       \* the hook each call gives to resolve_turn
    pc,                   \* each call's position in resolve_turn
    input,                \* each call's ResolveTurnInput
    attempt,              \* each call's loop index
    context,              \* each call's TurnContext of the current attempt
    llm_output,           \* each call's LLMTurnOutput of the current attempt
    phase_c,              \* what Phase C has read (now, campaign, player)
    result,               \* each call's ResolveTurnResult.status and reason
    trace,                \* per call: how often each step ran, the tokens used
    op,                   \* the last call made beside resolve_turn, its result
    rewind,               \* what the running rewind_to_turn has read
    _pending_timers,      \* ZorkEmulator._pending_timers: campaign_id -> timer
    pre_inventory_rich,   \* each play action's inventory before its turn
    tasks,                \* the countdown tasks _schedule_timer has created
    emits,                \* what the timer effects port was asked to emit
    _inflight_turns,      \* ZorkEmulator._inflight_turns (and _claims' keys)
    loaded_player         \* the Player object a caller of level_up has loaded

db == <<campaigns, players, inflight, turns, snapshots, timers, outbox>>

writes == <<campaigns, players, turns, snapshots, timers, outbox>>

config == <<max_conflict_retries, before_phase_c, _actor_resolver>>

emulator == <<_pending_timers, pre_inventory_rich, tasks, emits, _inflight_turns,
              loaded_player>>

callers == <<op, rewind, emulator>>

vars == <<now, campaigns, players, inflight, turns, snapshots, timers, outbox,
          max_conflict_retries, before_phase_c, _actor_resolver,
          pc, input, attempt, context, llm_output, phase_c, result, trace,
          op, rewind, _pending_timers, pre_inventory_rich, tasks, emits,
          _inflight_turns, loaded_player>>

\* ------------------------------------------------------------ repositories

Key(campaign_id, actor_id) == <<campaign_id, actor_id>>

\* cas_apply_update without "AND row_version = expected" in its WHERE.
cas_apply_update_AnyVersion(table, campaign_id, expected_row_version, values) ==
    IF campaign_id \in DOMAIN table
    THEN [ok    |-> TRUE,
          table |-> [table EXCEPT ![campaign_id] =
                        [field \in DOMAIN @ |->
                            IF field = "row_version" THEN @[field] + 1
                            ELSE IF field \in DOMAIN values THEN values[field]
                            ELSE @[field]]]]
    ELSE [ok |-> FALSE, table |-> table]

\* cas_apply_update that leaves row_version out of the SET clause.
cas_apply_update_NoIncrement(table, campaign_id, expected_row_version, values) ==
    IF /\ campaign_id \in DOMAIN table
       /\ table[campaign_id].row_version = expected_row_version
    THEN [ok    |-> TRUE,
          table |-> [table EXCEPT ![campaign_id] =
                        [field \in DOMAIN @ |->
                            IF field \in DOMAIN values THEN values[field]
                            ELSE @[field]]]]
    ELSE [ok |-> FALSE, table |-> table]

\* CampaignRepo.cas_apply_update: UPDATE ... SET values, row_version =
\* row_version + 1 WHERE id = campaign_id AND row_version = expected.
cas_apply_update(table, campaign_id, expected_row_version, values) ==
    IF /\ campaign_id \in DOMAIN table
       /\ table[campaign_id].row_version = expected_row_version
    THEN [ok    |-> TRUE,
          table |-> [table EXCEPT ![campaign_id] =
                        [field \in DOMAIN @ |->
                            IF field = "row_version" THEN @[field] + 1
                            ELSE IF field \in DOMAIN values THEN values[field]
                            ELSE @[field]]]]
    ELSE [ok |-> FALSE, table |-> table]

\* PlayerRepo.create: the column defaults of a new player row.
player_create(campaign_id, actor_id) ==
    [campaign_id |-> campaign_id, actor_id |-> actor_id, level |-> 1, xp |-> 0,
     attributes_json |-> dump_json(EmptyMap), state_json |-> dump_json(EmptyMap)]

\* PlayerRepo.list_by_campaign
list_by_campaign(table, campaign_id) ==
    {table[key] : key \in {x \in DOMAIN table : x[1] = campaign_id}}

\* The id the store gives the next inserted turn.
NextTurnId(table) ==
    IF table = <<>> THEN 1 ELSE table[Len(table)].id + 1

\* TurnRepo.add
turns_add(table, campaign_id, session_id, actor_id, kind, content) ==
    Append(table, [id |-> NextTurnId(table), campaign_id |-> campaign_id,
                   session_id |-> session_id, actor_id |-> actor_id,
                   kind |-> kind, content |-> content, created_at |-> now])

\* TimerRepo.ACTIVE
ACTIVE == {"scheduled_unbound", "scheduled_bound"}

\* TimerRepo.cancel_active
cancel_active(table, campaign_id, cancelled_at) ==
    [i \in DOMAIN table |->
        IF table[i].campaign_id = campaign_id /\ table[i].status \in ACTIVE
        THEN [table[i] EXCEPT !.status = "cancelled",
                              !.cancelled_at = Some(cancelled_at)]
        ELSE table[i]]

\* TimerRepo.schedule inserting the row as already bound to a message.
schedule_Bound(table, campaign_id, session_id, due_at, event_text, interruptible, interrupt_action) ==
    Append(table, [id |-> Len(table) + 1, campaign_id |-> campaign_id,
                   session_id |-> session_id, status |-> "scheduled_bound",
                   event_text |-> event_text, interruptible |-> interruptible,
                   interrupt_action |-> interrupt_action, due_at |-> due_at,
                   fired_at |-> None, cancelled_at |-> None,
                   external_message_id |-> None])

\* TimerRepo.schedule
schedule(table, campaign_id, session_id, due_at, event_text, interruptible, interrupt_action) ==
    Append(table, [id |-> Len(table) + 1, campaign_id |-> campaign_id,
                   session_id |-> session_id, status |-> "scheduled_unbound",
                   event_text |-> event_text, interruptible |-> interruptible,
                   interrupt_action |-> interrupt_action, due_at |-> due_at,
                   fired_at |-> None, cancelled_at |-> None,
                   external_message_id |-> None])

\* acquire_or_steal whose conditional update reads expires_at <= now.
acquire_or_steal_StealAtExpiry(table, campaign_id, actor_id, claim_token, t, expires_at) ==
    LET key == Key(campaign_id, actor_id)
        row == [claim_token |-> claim_token, claimed_at |-> t,
                heartbeat_at |-> t, expires_at |-> expires_at]
    IN  IF key \notin DOMAIN table
        THEN [ok |-> TRUE, table |-> (key :> row) @@ table]
        ELSE IF table[key].expires_at <= t
        THEN [ok |-> TRUE, table |-> [table EXCEPT ![key] = row]]
        ELSE [ok |-> FALSE, table |-> table]

\* acquire_or_steal whose conditional update leaves heartbeat_at as it was.
acquire_or_steal_KeepHeartbeat(table, campaign_id, actor_id, claim_token, t, expires_at) ==
    LET key == Key(campaign_id, actor_id)
        row == [claim_token |-> claim_token, claimed_at |-> t,
                heartbeat_at |-> t, expires_at |-> expires_at]
    IN  IF key \notin DOMAIN table
        THEN [ok |-> TRUE, table |-> (key :> row) @@ table]
        ELSE IF table[key].expires_at < t
        THEN [ok |-> TRUE,
              table |-> [table EXCEPT ![key] =
                            [row EXCEPT !.heartbeat_at = table[key].heartbeat_at]]]
        ELSE [ok |-> FALSE, table |-> table]

\* InflightTurnRepo.acquire_or_steal: insert the row; on the unique
\* constraint, overwrite it only where expires_at < now.
acquire_or_steal(table, campaign_id, actor_id, claim_token, t, expires_at) ==
    LET key == Key(campaign_id, actor_id)
        row == [claim_token |-> claim_token, claimed_at |-> t,
                heartbeat_at |-> t, expires_at |-> expires_at]
    IN  IF key \notin DOMAIN table
        THEN [ok |-> TRUE, table |-> (key :> row) @@ table]
        ELSE IF table[key].expires_at < t
        THEN [ok |-> TRUE, table |-> [table EXCEPT ![key] = row]]
        ELSE [ok |-> FALSE, table |-> table]

\* validate_token that does not compare the token.
validate_token_AnyToken(table, campaign_id, actor_id, claim_token, t) ==
    LET key == Key(campaign_id, actor_id)
    IN  /\ key \in DOMAIN table
        /\ table[key].expires_at >= t

\* validate_token that does not look at expires_at.
validate_token_IgnoreExpiry(table, campaign_id, actor_id, claim_token, t) ==
    LET key == Key(campaign_id, actor_id)
    IN  /\ key \in DOMAIN table
        /\ table[key].claim_token = claim_token

\* InflightTurnRepo.validate_token
validate_token(table, campaign_id, actor_id, claim_token, t) ==
    LET key == Key(campaign_id, actor_id)
    IN  /\ key \in DOMAIN table
        /\ table[key].claim_token = claim_token
        /\ table[key].expires_at >= t

\* InflightTurnRepo.release without the claim_token condition.
release_AnyToken(table, campaign_id, actor_id, claim_token) ==
    LET key == Key(campaign_id, actor_id)
    IN  IF key \in DOMAIN table
        THEN [x \in DOMAIN table \ {key} |-> table[x]]
        ELSE table

\* InflightTurnRepo.release: DELETE ... WHERE claim_token = claim_token
release(table, campaign_id, actor_id, claim_token) ==
    LET key == Key(campaign_id, actor_id)
    IN  IF key \in DOMAIN table /\ table[key].claim_token = claim_token
        THEN [x \in DOMAIN table \ {key} |-> table[x]]
        ELSE table

\* OutboxRepo.add on a table without uq_tge_outbox_campaign_session_event_key.
outbox_add_NoUniqueConstraint(table, campaign_id, session_id, event_type, idempotency_key, payload) ==
    LET scope == IF session_id = None THEN "__none__" ELSE TheValue(session_id)
    IN  table \cup {[id |-> Cardinality(table) + 1,
                     campaign_id |-> campaign_id, session_id |-> session_id,
                     session_scope |-> scope, event_type |-> event_type,
                     idempotency_key |-> idempotency_key,
                     payload |-> payload]}

\* OutboxRepo.add: the insert runs in a savepoint; the IntegrityError of a
\* duplicate (campaign, scope, type, key) undoes the savepoint only and is
\* swallowed.  A new row gets an id no other row has.
outbox_add(table, campaign_id, session_id, event_type, idempotency_key, payload) ==
    LET scope == IF session_id = None THEN "__none__" ELSE TheValue(session_id)
    IN  IF \E row \in table :
              /\ row.campaign_id = campaign_id
              /\ row.session_scope = scope
              /\ row.event_type = event_type
              /\ row.idempotency_key = idempotency_key
        THEN table
        ELSE table \cup {[id |-> Cardinality(table) + 1,
                          campaign_id |-> campaign_id, session_id |-> session_id,
                          session_scope |-> scope, event_type |-> event_type,
                          idempotency_key |-> idempotency_key,
                          payload |-> payload]}

\* ------------------------------------------------------------------ engine

\* str.lower() on the strings the model uses.
lower(text) ==
    IF text = "Old Road" THEN "old road"
    ELSE IF text = "Rusty Key" THEN "rusty key"
    ELSE IF text \in {"Eclipse", "ECLIPSE"} THEN "eclipse"
    ELSE IF text = "Harvest" THEN "harvest"
    ELSE IF text = "Market" THEN "market"
    ELSE text

\* GameEngine._room_key_from_state
ROOM_KEYS == <<"room_id", "location", "room_title", "room_summary">>

_room_key_from_state(state) ==
    LET present == {i \in DOMAIN ROOM_KEYS :
                        /\ ROOM_KEYS[i] \in DOMAIN state
                        /\ state[ROOM_KEYS[i]] # ""}
    IN  IF present = {} THEN "unknown-room"
        ELSE LET first == CHOOSE i \in present : \A j \in present : i <= j
             IN  lower(state[ROOM_KEYS[first]])

\* normalize_give_item reporting no issue for a target it cannot resolve.
normalize_give_item_NoIssue(raw, actor_resolver) ==
    IF raw = None THEN [instruction |-> None, issue |-> None]
    ELSE LET gi      == TheValue(raw)
             mention == gi.to_discord_mention
             target  == IF gi.to_actor_id # None THEN gi.to_actor_id
                        ELSE IF mention # None /\ actor_resolver # None
                                /\ TheValue(mention) \in DOMAIN TheValue(actor_resolver)
                        THEN Some(TheValue(actor_resolver)[TheValue(mention)])
                        ELSE None
         IN  IF gi.item = "" THEN [instruction |-> None, issue |-> Some("missing_item")]
             ELSE [instruction |-> Some([item |-> gi.item, to_actor_id |-> target,
                                         to_discord_mention |-> mention]),
                   issue |-> None]

\* normalize_give_item: the instruction and the issue, if any.
normalize_give_item(raw, actor_resolver) ==
    IF raw = None THEN [instruction |-> None, issue |-> None]
    ELSE LET gi      == TheValue(raw)
             mention == gi.to_discord_mention
             target  == IF gi.to_actor_id # None THEN gi.to_actor_id
                        ELSE IF mention # None /\ actor_resolver # None
                                /\ TheValue(mention) \in DOMAIN TheValue(actor_resolver)
                        THEN Some(TheValue(actor_resolver)[TheValue(mention)])
                        ELSE None
         IN  IF gi.item = "" THEN [instruction |-> None, issue |-> Some("missing_item")]
             ELSE [instruction |-> Some([item |-> gi.item, to_actor_id |-> target,
                                         to_discord_mention |-> mention]),
                   issue |-> IF target # None THEN None
                             ELSE Some("unresolved_target")]

\* The resolver the engine is built with (tests build it with none).
actor_resolver == None

FALLBACK_NARRATION == <<"The world shifts, but nothing clear emerges.">>

\* The claim token of a call's current attempt: uuid4 gives every attempt
\* a token no other attempt has.
ClaimToken(k) == <<k, attempt[k]>>

NoContext == [start_row_version |-> 0]

NoRead == [now |-> 0]

NoResult == [status |-> "none", conflict_reason |-> "", narration |-> None,
             timer_instruction |-> None]

NoInput == [campaign_id |-> "", actor_id |-> "", session_id |-> None,
            record_player_turn |-> TRUE, allow_timer_instruction |-> TRUE]

\* What is recorded of a call as it runs: how often Phase A, the LLM call
\* and the hook ran, how often StaleClaimError was raised and why (last),
\* the message of the exception the loop has caught, the pending timer the
\* play action cancelled before it called, the error text begin_turn gave
\* the play action to return, the claim tokens issued, the attempts whose lease was stolen between
\* Phase A and the start of Phase C, and the calls of other actors that had
\* completed Phase A and not committed when this one completed Phase A.
NoTrace == [phase_a |-> 0, llm |-> 0, hook |-> 0, stale |-> 0, tokens |-> {},
            stale_reason |-> "", stolen |-> {}, raced |-> {}, error |-> "",
            cancelled_timer |-> None, reply |-> None]

\* A call made beside resolve_turn (a repository method, rewind_to_turn,
\* filter_memory_hits_by_visibility): its name, the campaign and the id,
\* turn id or hits it was given, what it returned (a flag; a rowcount; a
\* status, a reason and deleted_turns; a list of hits), and how many calls
\* that write were made.
NoOp == [name |-> "none", campaign_id |-> "", target |-> 0, channel_id |-> "",
         given_hits |-> <<>>, args |-> <<>>, value |-> <<>>,
         ret |-> FALSE, rowcount |-> 0, status |-> "", reason |-> "",
         deleted_turns |-> 0, hits |-> <<>>, calls |-> 0]

\* rewind_to_turn between its reads and its writes: the campaign row and the
\* snapshot it has read.
NoRewind == [pc |-> "idle"]

\* ZorkEmulator._pending_timers as the constructor leaves it: empty.
NoPendingTimers ==
    [c \in {} |-> [task |-> 0, message_id |-> None, event |-> "", delay |-> 0,
                   interruptible |-> TRUE, interrupt_action |-> None]]

\* Between the end of Phase A and the start of Phase C.
BeforePhaseCPcs == {"llm", "hook", "phase_c"}

\* Phase A is complete and the attempt has neither committed nor raised.
UncommittedPcs == {"llm", "hook", "phase_c", "phase_c_write"}

\* The state after construction, but for what the callers beside
\* resolve_turn hold: the store holds the campaigns and nothing else, no call
\* is running.
InitStore(campaign_ids, retry_settings, resolvers) ==
    /\ now = 0
    /\ campaigns = [c \in campaign_ids |->
            [row_version |-> 1, summary |-> <<>>,
             state_json |-> dump_json(EmptyMap),
             characters_json |-> dump_json(EmptyMap),
             last_narration |-> None,
             memory_visible_max_turn_id |-> None]]
    /\ players = [key \in {} |-> player_create("", "")]
    /\ inflight = [key \in {} |-> [claim_token |-> <<>>]]
    /\ turns = <<>>
    /\ snapshots = {}
    /\ timers = <<>>
    /\ outbox = {}
    /\ max_conflict_retries \in retry_settings
    /\ before_phase_c = [k \in Calls |-> "none"]
    /\ _actor_resolver \in resolvers
    /\ pc = [k \in Calls |-> "idle"]
    /\ input = [k \in Calls |-> NoInput]
    /\ attempt = [k \in Calls |-> 0]
    /\ context = [k \in Calls |-> NoContext]
    /\ llm_output = [k \in Calls |-> NoOutput]
    /\ phase_c = [k \in Calls |-> NoRead]
    /\ result = [k \in Calls |-> NoResult]
    /\ trace = [k \in Calls |-> NoTrace]
    /\ rewind = NoRewind
    /\ _pending_timers = NoPendingTimers
    /\ pre_inventory_rich = [k \in Calls |-> <<>>]
    /\ tasks = <<>>
    /\ emits = <<>>
    /\ _inflight_turns = {}
    /\ loaded_player = None

\* The state after construction: no call beside resolve_turn was made.
InitWith(campaign_ids, retry_settings, resolvers) ==
    /\ InitStore(campaign_ids, retry_settings, resolvers)
    /\ op = NoOp

\* The store of the tests, and an engine built with either retry setting and
\* no resolver.
Init == InitWith(CampaignIds, 0..MaxRetriesSetting, {actor_resolver})

\* The engine as the tests and the emulator build it: with the default
\* max_conflict_retries.
InitDefault ==
    /\ Init
    /\ max_conflict_retries = max_conflict_retries_default

\* The clock moves on.
Tick ==
    /\ now < MaxTicks * TickSeconds
    /\ now' = now + TickSeconds
    /\ UNCHANGED <<db, config, callers, pc, input, attempt, context, llm_output, phase_c,
                   result, trace>>

\* The actors a new call may come from.
ActorIds ==
    LET played == {input[k].actor_id : k \in {x \in Calls : pc[x] # "idle"}}
    IN  {ActorOrder[i] : i \in {j \in DOMAIN ActorOrder :
                                    \A h \in 1..(j - 1) : ActorOrder[h] \in played}}

\* The hooks a call may pass: the first call may bring the tests' hook, which
\* stands for a writer outside the engine.
Hooks(k) == IF k = CallOrder[1] THEN {"none", "bump_version"} ELSE {"none"}

\* resolve_turn is called with an input and a hook: the loop starts with
\* attempt 0.
BeginWith(k, campaign_choices, actor_choices, flag_choices, hook_choices) ==
    /\ pc[k] = "idle"
    /\ \A i, j \in DOMAIN CallOrder :
          (i < j /\ CallOrder[j] = k) => pc[CallOrder[i]] # "idle"
    /\ \E c \in campaign_choices, a \in actor_choices, flags \in flag_choices :
          input' = [input EXCEPT ![k] =
                        [campaign_id |-> c, actor_id |-> a, session_id |-> None,
                         record_player_turn |-> flags[1],
                         allow_timer_instruction |-> flags[2]]]
    /\ \E hook \in hook_choices :
          before_phase_c' = [before_phase_c EXCEPT ![k] = hook]
    /\ attempt' = [attempt EXCEPT ![k] = 0]
    /\ pc' = [pc EXCEPT ![k] = "phase_a"]
    /\ UNCHANGED <<now, db, max_conflict_retries, _actor_resolver, callers, context, llm_output,
                   phase_c, result, trace>>

\* resolve_turn is called for the campaign, by an actor that has a call
\* running or by the first that has none.
Begin(k, flag_choices, hook_choices) ==
    BeginWith(k, CampaignIds, ActorIds, flag_choices, hook_choices)

\* A caller of the engine calls resolve_turn.
Start(k) == Begin(k, TurnFlags, Hooks(k))

\* GameEngine._phase_a, one transaction; TurnBusyError rolls it back and
\* resolve_turn returns busy.
PhaseA(k) ==
    LET c     == input[k].campaign_id
        a     == input[k].actor_id
        token == ClaimToken(k)
        acq   == acquire_or_steal(inflight, c, a, token, now, now + lease_ttl_seconds)
        busy(reason) ==
            /\ result' = [result EXCEPT ![k] =
                            [NoResult EXCEPT !.status = "busy",
                                             !.conflict_reason = "turn_inflight"]]
            /\ pc' = [pc EXCEPT ![k] = "done"]
            /\ UNCHANGED <<db, context>>
        \* the call whose unexpired-at-claim lease this Phase A overwrites
        robbed == IF acq.ok /\ Key(c, a) \in DOMAIN inflight
                  THEN {j \in Calls \ {k} :
                          /\ inflight[Key(c, a)].claim_token = ClaimToken(j)
                          /\ pc[j] \in BeforePhaseCPcs}
                  ELSE {}
        rivals == IF acq.ok
                  THEN {j \in Calls \ {k} :
                          /\ pc[j] \in UncommittedPcs
                          /\ input[j].campaign_id = c
                          /\ input[j].actor_id # a}
                  ELSE {}
    IN  /\ pc[k] = "phase_a"
        /\ trace' = [j \in Calls |->
                        IF j = k
                        THEN [trace[j] EXCEPT !.phase_a = @ + 1,
                                              !.stale_reason = "",
                                              !.tokens = @ \cup {token},
                                              !.raced = @ \cup rivals]
                        ELSE IF j \in robbed
                        THEN [trace[j] EXCEPT !.stolen = @ \cup {attempt[j]}]
                        ELSE trace[j]]
        /\ IF c \notin DOMAIN campaigns THEN busy("campaign_not_found")
           ELSE IF ~acq.ok THEN busy("turn_inflight")
           ELSE /\ inflight' = acq.table
                /\ players' = IF Key(c, a) \in DOMAIN players THEN players
                              ELSE (Key(c, a) :> player_create(c, a)) @@ players
                /\ context' = [context EXCEPT ![k] =
                                [start_row_version |-> campaigns[c].row_version]]
                /\ pc' = [pc EXCEPT ![k] = "llm"]
                /\ UNCHANGED <<campaigns, turns, snapshots, timers, outbox, result>>
        /\ UNCHANGED <<now, config, callers, input, attempt, llm_output, phase_c>>

\* await self._llm.complete_turn(context): the port answers, no lock held.
CompleteTurnWith(k, outputs) ==
    /\ pc[k] = "llm"
    /\ \E out \in outputs : llm_output' = [llm_output EXCEPT ![k] = out]
    /\ pc' = [pc EXCEPT ![k] = IF before_phase_c[k] = "none" THEN "phase_c" ELSE "hook"]
    /\ trace' = [trace EXCEPT ![k].llm = @ + 1]
    /\ UNCHANGED <<now, db, config, callers, input, attempt, context, phase_c, result>>

\* The port of the tests answers with one of their outputs.
CompleteTurn(k) == CompleteTurnWith(k, LLMOutputs)

\* before_phase_c(context, attempt): the tests' hook bumps row_version in a
\* transaction of its own.
BeforePhaseC(k) ==
    LET c == input[k].campaign_id
    IN  /\ pc[k] = "hook"
        /\ before_phase_c[k] = "bump_version"
        /\ campaigns' = [campaigns EXCEPT ![c].row_version = @ + 1]
        /\ pc' = [pc EXCEPT ![k] = "phase_c"]
        /\ trace' = [trace EXCEPT ![k].hook = @ + 1]
        /\ UNCHANGED <<now, players, inflight, turns, snapshots, timers, outbox,
                       config, callers, input, attempt, context, llm_output, phase_c, result>>

\* StaleClaimError leaves the transaction: it is rolled back and resolve_turn
\* goes on to release the claim.
RaiseStaleClaim(k, reason) ==
    /\ pc' = [pc EXCEPT ![k] = "release"]
    /\ trace' = [trace EXCEPT ![k].stale = @ + 1, ![k].stale_reason = reason]
    /\ UNCHANGED <<db, result>>

\* Phase C's reads without the comparison of row_version with the context's.
PhaseCRead_NoVersionCheck(k) ==
    LET c == input[k].campaign_id
        a == input[k].actor_id
    IN  /\ pc[k] = "phase_c"
        /\ IF ~validate_token(inflight, c, a, ClaimToken(k), now)
           THEN RaiseStaleClaim(k, "claim_invalid") /\ UNCHANGED phase_c
           ELSE IF c \notin DOMAIN campaigns \/ Key(c, a) \notin DOMAIN players
           THEN RaiseStaleClaim(k, "missing_campaign_or_player") /\ UNCHANGED phase_c
           ELSE /\ phase_c' = [phase_c EXCEPT ![k] =
                                [now |-> now, campaign |-> campaigns[c],
                                 player |-> players[Key(c, a)]]]
                /\ pc' = [pc EXCEPT ![k] = "phase_c_write"]
                /\ UNCHANGED <<db, result, trace>>
        /\ UNCHANGED <<now, config, callers, input, attempt, context, llm_output>>

\* GameEngine._phase_c, its reads: the token, the campaign, the player.
PhaseCRead(k) ==
    LET c == input[k].campaign_id
        a == input[k].actor_id
    IN  /\ pc[k] = "phase_c"
        /\ IF ~validate_token(inflight, c, a, ClaimToken(k), now)
           THEN RaiseStaleClaim(k, "claim_invalid") /\ UNCHANGED phase_c
           ELSE IF c \notin DOMAIN campaigns \/ Key(c, a) \notin DOMAIN players
           THEN RaiseStaleClaim(k, "missing_campaign_or_player") /\ UNCHANGED phase_c
           ELSE IF campaigns[c].row_version # context[k].start_row_version
           THEN RaiseStaleClaim(k, "row_version_changed") /\ UNCHANGED phase_c
           ELSE /\ phase_c' = [phase_c EXCEPT ![k] =
                                [now |-> now, campaign |-> campaigns[c],
                                 player |-> players[Key(c, a)]]]
                /\ pc' = [pc EXCEPT ![k] = "phase_c_write"]
                /\ UNCHANGED <<db, result, trace>>
        /\ UNCHANGED <<now, config, callers, input, attempt, context, llm_output>>

\* What Phase C writes, from what it has read and the LLM output: the
\* tables as they stand when the CAS is reached.
PhaseCWrites(k) ==
    LET inp  == input[k]
        c    == inp.campaign_id
        a    == inp.actor_id
        out  == llm_output[k]
        t    == phase_c[k].now
        campaign == phase_c[k].campaign
        player   == phase_c[k].player
        campaign_state      == apply_patch(parse_json_dict(campaign.state_json),
                                           out.state_update)
        campaign_characters == apply_patch(parse_json_dict(campaign.characters_json),
                                           out.character_updates)
        player_state        == apply_patch(parse_json_dict(player.state_json),
                                           out.player_state_update)
        summary == IF out.summary_update # None /\ TheValue(out.summary_update) # ""
                   THEN Append(campaign.summary, TheValue(out.summary_update))
                   ELSE campaign.summary
        narration == IF out.narration # <<>> THEN out.narration ELSE FALLBACK_NARRATION
        give      == normalize_give_item(out.give_item, _actor_resolver)
        outbox1   == IF give.issue # None
                     THEN outbox_add(outbox, c, inp.session_id, "give_item_unresolved",
                                     <<"give_item_unresolved", a, t>>,
                                     [issue |-> TheValue(give.issue),
                                      give_item |-> out.give_item])
                     ELSE outbox
        xp_inc    == Max(out.xp_awarded, 0)
        state_json == dump_json(player_state)
        players1  == [players EXCEPT ![Key(c, a)] =
                        [@ EXCEPT !.xp = IF xp_inc = 0 THEN @ ELSE player.xp + xp_inc,
                                  !.state_json = IF state_json = player.state_json
                                                 THEN @ ELSE state_json]]
        turns1    == IF inp.record_player_turn
                     THEN turns_add(turns, c, inp.session_id, a, "player", <<"action">>)
                     ELSE turns
        narrator_turn_id == NextTurnId(turns1)
        turns2    == turns_add(turns1, c, inp.session_id, a, "narrator", narration)
        timer_instruction == IF inp.allow_timer_instruction
                             THEN out.timer_instruction ELSE None
        ti        == TheValue(timer_instruction)
        due_at    == t + Max(MIN_TIMER_DELAY, ti.delay_seconds)
        timers1   == IF timer_instruction # None
                     THEN schedule(cancel_active(timers, c, t), c, inp.session_id,
                                   due_at, ti.event_text, ti.interruptible,
                                   ti.interrupt_action)
                     ELSE timers
        outbox2   == IF timer_instruction # None
                     THEN outbox_add(outbox1, c, inp.session_id, "timer_scheduled",
                                     <<"timer_scheduled", Len(timers1)>>,
                                     [timer_id |-> Len(timers1), due_at |-> due_at])
                     ELSE outbox1
        room_key  == _room_key_from_state(player_state)
        outbox3   == IF out.scene_image_prompt # None
                        /\ TheValue(out.scene_image_prompt) # ""
                     THEN outbox_add(outbox2, c, inp.session_id, "scene_image_requested",
                                     <<"scene_image", narrator_turn_id, room_key>>,
                                     [turn_id |-> narrator_turn_id, room_key |-> room_key])
                     ELSE outbox2
        players_data == {[actor_id |-> p.actor_id, level |-> p.level, xp |-> p.xp,
                          attributes_json |-> p.attributes_json,
                          state_json |-> p.state_json] :
                            p \in list_by_campaign(players1, c)}
        snapshot  == [turn_id |-> narrator_turn_id, campaign_id |-> c,
                      campaign_state_json |-> dump_json(campaign_state),
                      campaign_characters_json |-> dump_json(campaign_characters),
                      campaign_summary |-> summary,
                      campaign_last_narration |-> Some(narration),
                      players_json |-> dump_json(("players" :> players_data))]
        values    == [summary |-> summary,
                      state_json |-> dump_json(campaign_state),
                      characters_json |-> dump_json(campaign_characters),
                      last_narration |-> Some(narration),
                      memory_visible_max_turn_id |-> Some(narrator_turn_id)]
    IN  [players |-> players1, turns |-> turns2, timers |-> timers1,
         outbox |-> outbox3, snapshots |-> snapshots \cup {snapshot},
         values |-> values, timer_instruction |-> timer_instruction]

\* Phase C that commits the turn and its snapshot before it looks at the
\* outcome of the CAS.
PhaseCWrite_CommitBeforeCas(k) ==
    LET c   == input[k].campaign_id
        a   == input[k].actor_id
        w   == PhaseCWrites(k)
        cas == cas_apply_update(campaigns, c, context[k].start_row_version, w.values)
    IN  /\ pc[k] = "phase_c_write"
        /\ turns' = w.turns
        /\ snapshots' = w.snapshots
        /\ IF ~cas.ok
           THEN /\ pc' = [pc EXCEPT ![k] = "release"]
                /\ trace' = [trace EXCEPT ![k].stale = @ + 1,
                                          ![k].stale_reason = "cas_failed"]
                /\ UNCHANGED <<campaigns, players, inflight, timers, outbox, result>>
           ELSE /\ campaigns' = cas.table
                /\ players' = w.players
                /\ timers' = w.timers
                /\ outbox' = w.outbox
                /\ inflight' = release(inflight, c, a, ClaimToken(k))
                /\ result' = [result EXCEPT ![k] =
                                [NoResult EXCEPT !.status = "ok",
                                                 !.narration = w.values.last_narration,
                                                 !.timer_instruction = w.timer_instruction]]
                /\ pc' = [pc EXCEPT ![k] = "done"]
                /\ UNCHANGED trace
        /\ phase_c' = [phase_c EXCEPT ![k] = NoRead]
        /\ UNCHANGED <<now, config, callers, input, attempt, context, llm_output>>

\* GameEngine._phase_c, its writes: the turn's rows, the CAS on the campaign,
\* the release of the claim and the commit.  A failed CAS raises
\* StaleClaimError and the transaction is rolled back.
PhaseCWrite(k) ==
    LET c   == input[k].campaign_id
        a   == input[k].actor_id
        w   == PhaseCWrites(k)
        cas == cas_apply_update(campaigns, c, context[k].start_row_version, w.values)
    IN  /\ pc[k] = "phase_c_write"
        /\ IF ~cas.ok
           THEN RaiseStaleClaim(k, "cas_failed")
           ELSE /\ campaigns' = cas.table
                /\ players' = w.players
                /\ turns' = w.turns
                /\ snapshots' = w.snapshots
                /\ timers' = w.timers
                /\ outbox' = w.outbox
                /\ inflight' = release(inflight, c, a, ClaimToken(k))
                /\ result' = [result EXCEPT ![k] =
                                [NoResult EXCEPT !.status = "ok",
                                                 !.narration = w.values.last_narration,
                                                 !.timer_instruction = w.timer_instruction]]
                /\ pc' = [pc EXCEPT ![k] = "done"]
                /\ UNCHANGED trace
        /\ phase_c' = [phase_c EXCEPT ![k] = NoRead]
        /\ UNCHANGED <<now, config, callers, input, attempt, context, llm_output>>

\* The retry loop with "attempt <= max_conflict_retries": one attempt more.
ReleaseClaimBestEffort_OneMoreAttempt(k) ==
    LET c == input[k].campaign_id
        a == input[k].actor_id
    IN  /\ pc[k] = "release"
        /\ inflight' = release(inflight, c, a, ClaimToken(k))
        /\ IF attempt[k] <= max_conflict_retries
           THEN /\ attempt' = [attempt EXCEPT ![k] = @ + 1]
                /\ pc' = [pc EXCEPT ![k] = "phase_a"]
                /\ context' = [context EXCEPT ![k] = NoContext]
                /\ llm_output' = [llm_output EXCEPT ![k] = NoOutput]
                /\ UNCHANGED result
           ELSE /\ result' = [result EXCEPT ![k] =
                                [NoResult EXCEPT
                                    !.status = "conflict",
                                    !.conflict_reason = "stale_claim_or_row_version"]]
                /\ pc' = [pc EXCEPT ![k] = "done"]
                /\ UNCHANGED <<attempt, context, llm_output>>
        /\ UNCHANGED <<now, campaigns, players, turns, snapshots, timers, outbox,
                       config, callers, input, phase_c, trace>>

\* except StaleClaimError: _release_claim_best_effort in a transaction of its
\* own, then the next attempt (context and llm_output start unset), or
\* conflict when no retry is left.
ReleaseClaimBestEffort(k) ==
    LET c == input[k].campaign_id
        a == input[k].actor_id
    IN  /\ pc[k] = "release"
        /\ inflight' = release(inflight, c, a, ClaimToken(k))
        /\ IF attempt[k] < max_conflict_retries
           THEN /\ attempt' = [attempt EXCEPT ![k] = @ + 1]
                /\ pc' = [pc EXCEPT ![k] = "phase_a"]
                /\ context' = [context EXCEPT ![k] = NoContext]
                /\ llm_output' = [llm_output EXCEPT ![k] = NoOutput]
                /\ UNCHANGED result
           ELSE /\ result' = [result EXCEPT ![k] =
                                [NoResult EXCEPT
                                    !.status = "conflict",
                                    !.conflict_reason = "stale_claim_or_row_version"]]
                /\ pc' = [pc EXCEPT ![k] = "done"]
                /\ UNCHANGED <<attempt, context, llm_output>>
        /\ UNCHANGED <<now, campaigns, players, turns, snapshots, timers, outbox,
                       config, callers, input, phase_c, trace>>

Next ==
    \/ Tick
    \/ \E k \in Calls : Start(k)
    \/ \E k \in Calls : PhaseA(k)
    \/ \E k \in Calls : CompleteTurn(k)
    \/ \E k \in Calls : BeforePhaseC(k)
    \/ \E k \in Calls : PhaseCRead(k)
    \/ \E k \in Calls : PhaseCWrite(k)
    \/ \E k \in Calls : ReleaseClaimBestEffort(k)

Spec == Init /\ [][Next]_vars

\* ---------------------------------------------------------------- emulator

\* A narration is a sequence of lines.  The footer is the line the last
\* "---" opens when an "xp" follows it.
FOOTER_LINES == {"--- XP +2 ---"}

\* ZorkEmulator._strip_narration_footer
_strip_narration_footer(text) ==
    LET found == {i \in DOMAIN text : text[i] \in FOOTER_LINES}
        idx   == CHOOSE i \in found : \A j \in found : j <= i
    IN  IF found = {} THEN text ELSE SubSeq(text, 1, idx - 1)

\* The lines that start with "inventory:" once stripped and lowered.
INVENTORY_LINES == {"Inventory: empty", "Inventory: lamp"}

\* The lines that start with the alarm-clock sign.
TIMER_LINES == {"(timer) Boom (act to prevent!)", "(timer) Boom (unavoidable)",
                "(timer) Something happens (act to prevent!)",
                "(timer) Something happens (unavoidable)"}

\* What a received item's origin says.
ReceivedFrom(actor_id) == "Received from <@" \o actor_id \o ">"

\* The names and the origins the items of the model have.
ItemNames == {"lamp", "Rusty Key", "rusty key"}

ItemOrigins ==
    {"", "Found in locker"} \cup {ReceivedFrom(a) : a \in {"actor-1", "actor-2", "1", "2"}}

ItemEntries == [name : ItemNames, origin : ItemOrigins]

\* The lists a state's "inventory" may hold: two entries at most.
InventoryLists == {<<>>} \cup [1..1 -> ItemEntries] \cup [1..2 -> ItemEntries]

\* _dump_json of a list of entries: the texts the outputs of the tests name
\* are written out, any other list has the text of its value.
InventoryText(entries) ==
    IF entries = <<>> THEN "[]"
    ELSE IF entries = <<[name |-> "lamp", origin |-> ""]>> THEN "[lamp]"
    ELSE IF entries = <<[name |-> "lamp", origin |-> ReceivedFrom("actor-1")]>>
    THEN "[lamp from actor-1]"
    ELSE IF entries = <<[name |-> "lamp", origin |-> ReceivedFrom("actor-2")]>>
    THEN "[lamp from actor-2]"
    ELSE ToString(entries)

\* A player state's "inventory": the JSON text of the list, and the entries
\* of it as they are stored.
INVENTORIES ==
    [text \in {InventoryText(entries) : entries \in InventoryLists} |->
        CHOOSE entries \in InventoryLists : InventoryText(entries) = text]

\* The entries of s at the indices in keep, in the order of s.
Subsequence(s, keep) ==
    [n \in 1..Cardinality(keep) |->
        s[CHOOSE i \in keep : Cardinality({j \in keep : j <= i}) = n]]

\* ZorkEmulator._get_inventory_rich: the entries of the state's inventory,
\* none when the key is missing or holds no list; of the entries whose names
\* are equal but for their case the first is kept.
_get_inventory_rich(player_state) ==
    IF "inventory" \in DOMAIN player_state
          /\ player_state["inventory"] \in DOMAIN INVENTORIES
    THEN LET raw == INVENTORIES[player_state["inventory"]]
         IN  Subsequence(raw, {i \in DOMAIN raw :
                                  \A j \in 1..(i - 1) :
                                      lower(raw[j].name) # lower(raw[i].name)})
    ELSE <<>>

\* _dump_json of a list of entries.
InventoryJson(entries) == InventoryText(entries)

\* The loop of _apply_inventory_delta over adds: a name that is not in the
\* list, whatever its case, is appended with the origin hint.
RECURSIVE AddItems(_, _, _)
AddItems(out, adds, origin_hint) ==
    IF adds = <<>> THEN out
    ELSE LET item == Head(adds)
             held == \E i \in DOMAIN out : lower(out[i].name) = lower(item)
         IN  AddItems(IF held THEN out
                      ELSE Append(out, [name |-> item, origin |-> origin_hint]),
                      Tail(adds), origin_hint)

\* ZorkEmulator._apply_inventory_delta: the entries whose names are in
\* removes, whatever their case, go; then the names in adds are appended.
_apply_inventory_delta(current, adds, removes, origin_hint) ==
    LET remove_norm == {lower(removes[i]) : i \in DOMAIN removes}
        out == Subsequence(current, {i \in DOMAIN current :
                                        lower(current[i].name) \notin remove_norm})
    IN  AddItems(out, adds, origin_hint)

\* ZorkEmulator._format_inventory: None for a state that holds no item.
_format_inventory(player_state) ==
    IF _get_inventory_rich(player_state) = <<>> THEN None
    ELSE Some("Inventory: lamp")

\* The timer line of the decorated narration; the relative timestamp it shows
\* is left out of the line.
TimerLine(timer_instruction) ==
    LET event_hint == IF timer_instruction.event_text = "Boom"
                      THEN "Boom" ELSE "Something happens"
    IN  IF timer_instruction.interruptible
        THEN (IF event_hint = "Boom" THEN "(timer) Boom (act to prevent!)"
              ELSE "(timer) Something happens (act to prevent!)")
        ELSE (IF event_hint = "Boom" THEN "(timer) Boom (unavoidable)"
              ELSE "(timer) Something happens (unavoidable)")

\* ZorkEmulator._decorate_narration_and_persist, with the players table it
\* finds: the decorated narration and the tables as its session commits them.  The campaign row is written
\* through the ORM: last_narration is set, row_version is not touched.
_decorate_narration_and_persist(players_table, campaign_id, actor_id, narration, timer_instruction) ==
    LET stripped == _strip_narration_footer(narration)
        has_inventory_line == \E i \in DOMAIN stripped : stripped[i] \in INVENTORY_LINES
        has_timer_line     == \E i \in DOMAIN stripped : stripped[i] \in TIMER_LINES
        key == Key(campaign_id, actor_id)
        player_state == IF key \in DOMAIN players_table
                        THEN parse_json_dict(players_table[key].state_json)
                        ELSE EmptyMap
        formatted == _format_inventory(player_state)
        inventory_line == IF formatted # None THEN TheValue(formatted)
                          ELSE "Inventory: empty"
        with_inventory == IF has_inventory_line THEN stripped
                          ELSE Append(stripped, inventory_line)
        decorated == IF timer_instruction # None /\ ~has_timer_line
                     THEN Append(with_inventory, TimerLine(TheValue(timer_instruction)))
                     ELSE with_inventory
        narrators == {i \in DOMAIN turns : /\ turns[i].campaign_id = campaign_id
                                           /\ turns[i].kind = "narrator"}
        last == CHOOSE i \in narrators : \A j \in narrators : turns[j].id <= turns[i].id
    IN  [decorated |-> decorated,
         campaigns |-> IF campaign_id \in DOMAIN campaigns
                       THEN [campaigns EXCEPT
                                ![campaign_id].last_narration = Some(decorated)]
                       ELSE campaigns,
         turns     |-> IF narrators = {} THEN turns
                       ELSE [turns EXCEPT ![last].content = decorated],
         snapshots |-> IF narrators = {} THEN snapshots
                       ELSE {IF snap.turn_id = turns[last].id
                             THEN [snap EXCEPT !.campaign_last_narration = Some(decorated)]
                             ELSE snap : snap \in snapshots}]

\* ZorkEmulator._default_player_stats, the counters of it (the attention
\* seconds and the time of the last message are left out).
_default_player_stats == [messages_sent |-> 0, timers_averted |-> 0, timers_missed |-> 0]

\* ZorkEmulator._get_player_stats_from_state
_get_player_stats_from_state(player_state) ==
    IF "zork_stats" \in DOMAIN player_state THEN player_state["zork_stats"]
    ELSE _default_player_stats

\* ZorkEmulator._set_player_stats_on_state
_set_player_stats_on_state(player_state, stats) ==
    ("zork_stats" :> stats) @@ player_state

\* ZorkEmulator.increment_player_stat: the counter goes up by one and the
\* player's row is committed.
increment_player_stat(table, key, stat_key) ==
    LET player_state == parse_json_dict(table[key].state_json)
        stats == _get_player_stats_from_state(player_state)
    IN  [table EXCEPT ![key].state_json =
            dump_json(_set_player_stats_on_state(
                player_state, [stats EXCEPT ![stat_key] = @ + 1]))]

\* ZorkEmulator.record_player_message: one message more, committed.
record_player_message(table, key) ==
    increment_player_stat(table, key, "messages_sent")

\* The interruption note: its opening, and the averted event it names.
InterruptNote(cancelled_timer) ==
    <<"[TIMER INTERRUPTED]",
      IF cancelled_timer.event # "" THEN cancelled_timer.event
      ELSE "an impending event">>

\* ZorkEmulator.cancel_pending_timer: the campaign's entry is popped.
cancel_pending_timer(table, campaign_id) ==
    [c \in DOMAIN table \ {campaign_id} |-> table[c]]

\* task.cancel() on a task that is not done: a task that sleeps wakes with
\* CancelledError and returns.
task_cancel(table, task) ==
    IF table[task].state = "sleeping"
    THEN [table EXCEPT ![task].state = "cancelled"]
    ELSE table

\* asyncio.create_task(self._timer_task(...)): one task more, asleep for
\* delay_seconds from now on.
create_task(table, campaign_id, delay_seconds, event_description) ==
    Append(table, [campaign_id |-> campaign_id, delay_seconds |-> delay_seconds,
                   event_description |-> event_description, started_at |-> now,
                   state |-> "sleeping"])

\* ZorkEmulator._schedule_timer: the campaign's entry is set to the task
\* just created, whatever entry the campaign had.
_schedule_timer(table, campaign_id, task, delay_seconds, event_description, interruptible, interrupt_action) ==
    (campaign_id :> [task             |-> task,
                     message_id       |-> None,
                     event            |-> event_description,
                     delay            |-> delay_seconds,
                     interruptible    |-> interruptible,
                     interrupt_action |-> interrupt_action])
    @@ table

\* float(raw) of the speed multipliers a campaign's state may hold, in tenths.
SPEEDS == ("0.1" :> 1) @@ ("0.5" :> 5) @@ ("2.0" :> 20) @@ ("10.0" :> 100)

\* ZorkEmulator.get_speed_multiplier, in tenths: 1.0 when the state has none
\* or one that is no number.
get_speed_multiplier(campaign) ==
    LET campaign_state == parse_json_dict(campaign.state_json)
    IN  IF "speed_multiplier" \notin DOMAIN campaign_state THEN 10
        ELSE IF campaign_state["speed_multiplier"] \in DOMAIN SPEEDS
        THEN SPEEDS[campaign_state["speed_multiplier"]]
        ELSE 10

Min(a, b) == IF a <= b THEN a ELSE b

\* The delay _play_action_with_ids gives the countdown: the instruction's
\* delay divided by a positive speed, truncated, and clamped to 15..300.
timer_delay_seconds(delay_seconds, speed) ==
    LET scaled == IF speed > 0 THEN (delay_seconds * 10) \div speed
                  ELSE delay_seconds
    IN  Max(15, Min(300, scaled))

\* A text is the sequence of its pieces: words, phrases, mentions, or whole
\* lines.  The give verbs of give_re, and the one line of the outputs that
\* holds one.
GIVE_VERBS == {"give", "hand", "pass", "toss", "offer", "slide"}

GIVE_LINES == {"You hand the lamp over."}

\* give_re.search(text)
give_re(text) == \E i \in DOMAIN text : lower(text[i]) \in GIVE_VERBS \cup GIVE_LINES

\* Refusal phrases refuse_re matches.
REFUSALS == {"refuses", "declines", "rejects", "pushes it back", "won't take",
             "hands it back", "gives it back", "returns it"}

\* refuse_re.search(text)
refuse_re(text) == \E i \in DOMAIN text : lower(text[i]) \in REFUSALS

\* The mentions mention_re matches, <@digits> and <@!digits>, and the actor
\* id each holds; "<@actor-2>" holds no number and is no mention.
MENTIONS == ("<@1>" :> "1") @@ ("<@!1>" :> "1") @@ ("<@2>" :> "2") @@ ("<@!2>" :> "2")
            @@ ("<@3>" :> "3")

\* mention_re.finditer(text): the actor ids mentioned, in their order.
mention_re(text) ==
    LET hit == Subsequence(text, {i \in DOMAIN text : text[i] \in DOMAIN MENTIONS})
    IN  [i \in DOMAIN hit |-> MENTIONS[hit[i]]]

\* str(int(mention.strip("<@!>"))) or "" where int() raises.
MentionActorId(mention) ==
    IF mention \in DOMAIN MENTIONS THEN MENTIONS[mention] ELSE ""

\* The first entry of s that satisfies Test, if there is one.
First(s, Test(_)) ==
    LET hit == {i \in DOMAIN s : Test(s[i])}
    IN  IF hit = {} THEN None ELSE Some(s[CHOOSE i \in hit : \A j \in hit : i <= j])

\* The fallback without its test for a refusal.
InferredGiveItem_NoRefusal(actor_id, action_text, narration_text, removed) ==
    LET Other(candidate) == candidate # "" /\ candidate # actor_id
        target_actor_id  == First(mention_re(narration_text), Other)
        InAction(removed_item) ==
            \E i \in DOMAIN action_text : lower(action_text[i]) = lower(removed_item)
        inferred_item == IF Len(removed) = 1 THEN Some(removed[1])
                         ELSE First(removed, InAction)
    IN  IF removed = <<>> THEN None
        ELSE IF ~(give_re(action_text) \/ give_re(narration_text)) THEN None
        ELSE IF target_actor_id = None THEN None
        ELSE IF inferred_item = None THEN None
        ELSE Some([item |-> TheValue(inferred_item), to_actor_id |-> None,
                   to_discord_mention |->
                       Some("<@" \o TheValue(target_actor_id) \o ">")])

\* The give_item the fallback of _apply_give_item_transfer infers from the
\* items the turn removed and the two texts, if it infers one.
InferredGiveItem(actor_id, action_text, narration_text, removed) ==
    LET Other(candidate) == candidate # "" /\ candidate # actor_id
        target_actor_id  == First(mention_re(narration_text), Other)
        InAction(removed_item) ==
            \E i \in DOMAIN action_text : lower(action_text[i]) = lower(removed_item)
        inferred_item == IF Len(removed) = 1 THEN Some(removed[1])
                         ELSE First(removed, InAction)
    IN  IF removed = <<>> THEN None
        ELSE IF ~(give_re(action_text) \/ give_re(narration_text)) THEN None
        ELSE IF refuse_re(narration_text) THEN None
        ELSE IF target_actor_id = None THEN None
        ELSE IF inferred_item = None THEN None
        ELSE Some([item |-> TheValue(inferred_item), to_actor_id |-> None,
                   to_discord_mention |->
                       Some("<@" \o TheValue(target_actor_id) \o ">")])

\* ZorkEmulator._apply_give_item_transfer: the players table as its session
\* commits it.  Nothing happens for a player that had nothing before the
\* turn.  Without a give_item one is inferred from the items the turn
\* removed and the texts; the target is the actor id given, or the number a
\* mention holds; the item leaves the source if it is there still and is
\* added to the target's inventory.
_apply_give_item_transfer(table, campaign_id, actor_id, action_text, narration_text, give_item, pre_inventory) ==
    LET pre_names  == [i \in DOMAIN pre_inventory |-> pre_inventory[i].name]
        pre_map    == {lower(pre_names[i]) : i \in DOMAIN pre_names}
        source_key == Key(campaign_id, actor_id)
        source_state     == parse_json_dict(table[source_key].state_json)
        source_inventory == _get_inventory_rich(source_state)
        source_now == {lower(source_inventory[i].name) : i \in DOMAIN source_inventory}
        removed    == Subsequence(pre_names, {i \in DOMAIN pre_names :
                                                  lower(pre_names[i]) \notin source_now})
        resolved_give_item ==
            IF give_item # None THEN give_item
            ELSE InferredGiveItem(actor_id, action_text, narration_text, removed)
        gi               == TheValue(resolved_give_item)
        gi_item_name     == gi.item
        gi_target_actor_id ==
            IF gi.to_actor_id # None /\ TheValue(gi.to_actor_id) # ""
            THEN TheValue(gi.to_actor_id)
            ELSE IF gi.to_discord_mention # None
            THEN MentionActorId(TheValue(gi.to_discord_mention))
            ELSE ""
        giver_has_now    == lower(gi_item_name) \in source_now
        giver_had_before == lower(gi_item_name) \in pre_map
        target_key       == Key(campaign_id, gi_target_actor_id)
        target_state     == parse_json_dict(table[target_key].state_json)
        target_inventory == _apply_inventory_delta(
                                _get_inventory_rich(target_state), <<gi_item_name>>, <<>>,
                                ReceivedFrom(actor_id))
    IN  IF pre_inventory = <<>> \/ source_key \notin DOMAIN table THEN table
        ELSE IF resolved_give_item = None THEN table
        ELSE IF gi_item_name = "" \/ gi_target_actor_id = ""
                \/ gi_target_actor_id = actor_id THEN table
        ELSE IF ~(giver_has_now \/ giver_had_before) THEN table
        ELSE IF target_key \notin DOMAIN table THEN table
        ELSE [key \in DOMAIN table |->
                IF key = source_key /\ giver_has_now
                THEN [table[key] EXCEPT !.state_json = dump_json(
                        ("inventory" :> InventoryJson(_apply_inventory_delta(
                                            source_inventory, <<>>, <<gi_item_name>>, "")))
                        @@ source_state)]
                ELSE IF key = target_key
                THEN [table[key] EXCEPT !.state_json = dump_json(
                        ("inventory" :> InventoryJson(target_inventory))
                        @@ target_state)]
                ELSE table[key]]

\* begin_turn that claims the pair whether or not it is claimed already.
begin_turn_NoCheck(claimed, table, campaign_id, actor_id) ==
    IF actor_id = ""
    THEN [cid |-> None, error_text |-> Some("Actor not found."), claimed |-> claimed]
    ELSE IF campaign_id \notin DOMAIN table
    THEN [cid |-> None, error_text |-> Some("Campaign not found."), claimed |-> claimed]
    ELSE [cid |-> Some(campaign_id), error_text |-> None,
          claimed |-> claimed \cup {Key(campaign_id, actor_id)}]

\* ZorkEmulator.begin_turn, called with ids: (campaign_id, error_text) and
\* the pairs claimed in memory.  An empty actor id and a missing campaign
\* are errors; a pair that is claimed already gets (None, None).
begin_turn(claimed, table, campaign_id, actor_id) ==
    IF actor_id = ""
    THEN [cid |-> None, error_text |-> Some("Actor not found."), claimed |-> claimed]
    ELSE IF campaign_id \notin DOMAIN table
    THEN [cid |-> None, error_text |-> Some("Campaign not found."), claimed |-> claimed]
    ELSE IF Key(campaign_id, actor_id) \in claimed
    THEN [cid |-> None, error_text |-> None, claimed |-> claimed]
    ELSE [cid |-> Some(campaign_id), error_text |-> None,
          claimed |-> claimed \cup {Key(campaign_id, actor_id)}]

\* ZorkEmulator.end_turn: the pair is discarded, claimed or not.
end_turn(claimed, campaign_id, actor_id) == claimed \ {Key(campaign_id, actor_id)}

\* ZorkEmulator._play_action_with_ids up to its call of resolve_turn, which
\* it makes without a before_phase_c hook, with manage_claim left at its
\* default: begin_turn claims the pair, and its error text or None is
\* returned at once when it does not; then an interruptible pending timer
\* is cancelled and noted in a narrator turn, the inventory is read and the
\* message is counted.  flags holds record_player_turn (not is_ooc) and
\* allow_timer_instruction.
PlayActionBegin(k, campaign_id, actor_id, session_id, flags) ==
    LET key         == Key(campaign_id, actor_id)
        begun       == begin_turn(_inflight_turns, campaigns, campaign_id, actor_id)
        pending     == IF campaign_id \in DOMAIN _pending_timers
                       THEN Some(_pending_timers[campaign_id]) ELSE None
        interrupted == pending # None /\ TheValue(pending).interruptible
        players1    == IF interrupted /\ key \in DOMAIN players
                       THEN increment_player_stat(players, key, "timers_averted")
                       ELSE players
        turns1      == IF interrupted
                       THEN turns_add(turns, campaign_id, session_id, actor_id,
                                      "narrator", InterruptNote(TheValue(pending)))
                       ELSE turns
    IN  /\ pc[k] = "idle"
        /\ _inflight_turns' = begun.claimed
        /\ input' = [input EXCEPT ![k] =
                        [campaign_id |-> campaign_id, actor_id |-> actor_id,
                         session_id |-> session_id,
                         record_player_turn |-> flags[1],
                         allow_timer_instruction |-> flags[2]]]
        /\ before_phase_c' = [before_phase_c EXCEPT ![k] = "none"]
        /\ attempt' = [attempt EXCEPT ![k] = 0]
        /\ IF begun.cid = None
           THEN /\ pc' = [pc EXCEPT ![k] = "returned"]
                /\ trace' = [trace EXCEPT ![k].reply = begun.error_text]
                /\ UNCHANGED <<_pending_timers, tasks, turns, players, pre_inventory_rich>>
           ELSE /\ _pending_timers' = IF interrupted
                                      THEN cancel_pending_timer(_pending_timers, campaign_id)
                                      ELSE _pending_timers
                /\ tasks' = IF interrupted THEN task_cancel(tasks, TheValue(pending).task)
                            ELSE tasks
                /\ turns' = turns1
                /\ players' = IF key \in DOMAIN players1
                              THEN record_player_message(players1, key) ELSE players1
                /\ pre_inventory_rich' = [pre_inventory_rich EXCEPT ![k] =
                        IF key \in DOMAIN players1
                        THEN _get_inventory_rich(parse_json_dict(players1[key].state_json))
                        ELSE <<>>]
                /\ pc' = [pc EXCEPT ![k] = "phase_a"]
                /\ trace' = [trace EXCEPT ![k].cancelled_timer =
                                            IF interrupted THEN pending ELSE None]
        /\ UNCHANGED <<now, campaigns, inflight, snapshots, timers, outbox,
                       max_conflict_retries, _actor_resolver, op, rewind, emits,
                       loaded_player, context, llm_output, phase_c, result>>

\* The action text of the play calls, which the engine does not read.
ActionText == <<"look">>

\* ZorkEmulator._play_action_with_ids once resolve_turn has returned: on ok
\* the given item is transferred, the timer is scheduled when the action came
\* from a session, and the narration is decorated and persisted (there is no
\* media port); any other status is turned into the reply and nothing is
\* written.  result.give_item is the LLM output's give_item.  The finally
\* clause ends the turn begin_turn has claimed.
PlayActionReturn(k) ==
    LET c == input[k].campaign_id
        a == input[k].actor_id
        players1 == _apply_give_item_transfer(
                        players, c, a, ActionText,
                        IF result[k].narration # None THEN TheValue(result[k].narration)
                        ELSE <<>>,
                        llm_output[k].give_item, pre_inventory_rich[k])
        d == _decorate_narration_and_persist(
                players1, c, a,
                IF result[k].narration # None THEN TheValue(result[k].narration)
                ELSE <<>>,
                result[k].timer_instruction)
        ti == TheValue(result[k].timer_instruction)
        delay == timer_delay_seconds(ti.delay_seconds, get_speed_multiplier(campaigns[c]))
    IN  /\ pc[k] = "done"
        /\ pc' = [pc EXCEPT ![k] = "returned"]
        /\ _inflight_turns' = end_turn(_inflight_turns, c, a)
        /\ IF result[k].status = "ok"
           THEN /\ players' = players1
                /\ IF result[k].timer_instruction # None /\ input[k].session_id # None
                   THEN /\ tasks' = create_task(tasks, c, delay, ti.event_text)
                        /\ _pending_timers' =
                              _schedule_timer(_pending_timers, c, Len(tasks'), delay,
                                              ti.event_text, ti.interruptible,
                                              ti.interrupt_action)
                   ELSE UNCHANGED <<tasks, _pending_timers>>
                /\ campaigns' = d.campaigns
                /\ turns' = d.turns
                /\ snapshots' = d.snapshots
           ELSE UNCHANGED <<campaigns, players, turns, snapshots, _pending_timers, tasks>>
        /\ UNCHANGED <<now, inflight, timers, outbox, config, op, rewind,
                       pre_inventory_rich, emits, loaded_player, input, attempt, context,
                       llm_output, phase_c, result, trace>>

\* What _play_action_with_ids passes: record_player_turn = not is_ooc, and
\* allow_timer_instruction left at its default.
PlayActionFlags == {<<~is_ooc, TRUE>> : is_ooc \in BOOLEAN}

\* play_action is called with ids and no session, by one caller after the
\* other.
PlayActionStart(k) ==
    /\ \A i, j \in DOMAIN CallOrder :
          (i < j /\ CallOrder[j] = k) => pc[CallOrder[i]] # "idle"
    /\ \E c \in CampaignIds, a \in ActorIds, flags \in PlayActionFlags :
          PlayActionBegin(k, c, a, None, flags)

NextEmulator ==
    \/ Tick
    \/ \E k \in Calls : PlayActionStart(k)
    \/ \E k \in Calls : PhaseA(k)
    \/ \E k \in Calls : CompleteTurn(k)
    \/ \E k \in Calls : PhaseCRead(k)
    \/ \E k \in Calls : PhaseCWrite(k)
    \/ \E k \in Calls : ReleaseClaimBestEffort(k)
    \/ \E k \in Calls : PlayActionReturn(k)

SpecEmulator == Init /\ [][NextEmulator]_vars

\* ------------------------------------------------------------------ timers

\* The index without unique=True.
uq_tge_timer_one_active_per_campaign_NotUnique(table) == TRUE

\* uq_tge_timer_one_active_per_campaign: the partial unique index on
\* campaign_id over the rows whose status is active.
uq_tge_timer_one_active_per_campaign(table) ==
    \A i, j \in DOMAIN table :
        (/\ table[i].campaign_id = table[j].campaign_id
         /\ table[i].status \in ACTIVE
         /\ table[j].status \in ACTIVE) => i = j

\* The rows an UPDATE ... WHERE id = timer_id AND status IN statuses hits.
TimerRowsHit(table, timer_id, statuses) ==
    {i \in DOMAIN table : table[i].id = timer_id /\ table[i].status \in statuses}

\* TimerRepo.attach_message
attach_message(table, timer_id, external_message_id) ==
    LET hit == TimerRowsHit(table, timer_id, ACTIVE)
    IN  [ok    |-> Cardinality(hit) = 1,
         table |-> [i \in DOMAIN table |->
                      IF i \in hit
                      THEN [table[i] EXCEPT
                              !.status = "scheduled_bound",
                              !.external_message_id = Some(external_message_id)]
                      ELSE table[i]]]

\* TimerRepo.cancel_active's rowcount (the rows cancel_active rewrites).
cancel_active_rowcount(table, campaign_id) ==
    Cardinality({i \in DOMAIN table : /\ table[i].campaign_id = campaign_id
                                      /\ table[i].status \in ACTIVE})

\* mark_expired that also takes a consumed timer back to expired.
mark_expired_FromConsumed(table, timer_id, fired_at) ==
    LET hit == TimerRowsHit(table, timer_id, ACTIVE \cup {"consumed"})
    IN  [ok    |-> Cardinality(hit) = 1,
         table |-> [i \in DOMAIN table |->
                      IF i \in hit
                      THEN [table[i] EXCEPT !.status = "expired",
                                            !.fired_at = Some(fired_at)]
                      ELSE table[i]]]

\* TimerRepo.mark_expired
mark_expired(table, timer_id, fired_at) ==
    LET hit == TimerRowsHit(table, timer_id, ACTIVE)
    IN  [ok    |-> Cardinality(hit) = 1,
         table |-> [i \in DOMAIN table |->
                      IF i \in hit
                      THEN [table[i] EXCEPT !.status = "expired",
                                            !.fired_at = Some(fired_at)]
                      ELSE table[i]]]

\* TimerRepo.mark_consumed
mark_consumed(table, timer_id, consumed_at) ==
    LET hit == TimerRowsHit(table, timer_id, {"expired"})
    IN  [ok    |-> Cardinality(hit) = 1,
         table |-> [i \in DOMAIN table |->
                      IF i \in hit THEN [table[i] EXCEPT !.status = "consumed"]
                      ELSE table[i]]]

\* The message ids a timer is bound to (tests/test_engine_flow.py).
MessageIds == {"msg-1", "msg-2"}

\* The timer ids a caller may pass: those of the rows, and one of no row.
TimerIds == 1..(Len(timers) + 1)

\* A call beside resolve_turn is made and returns: op records it.
Returned(name, campaign_id, target, fields) ==
    op' = [field \in DOMAIN NoOp |->
             IF field = "name" THEN name
             ELSE IF field = "campaign_id" THEN campaign_id
             ELSE IF field = "target" THEN target
             ELSE IF field = "calls" THEN op.calls + 1
             ELSE IF field \in DOMAIN fields THEN fields[field]
             ELSE NoOp[field]]

\* Everything but the timers table and op.
NotTimers ==
    <<now, campaigns, players, inflight, turns, snapshots, outbox, config, rewind,
      emulator, pc, input, attempt, context, llm_output, phase_c, result, trace>>

\* A caller schedules a timer in a transaction of its own, as the tests do:
\* the flush raises IntegrityError when the campaign has an active timer,
\* and the transaction is rolled back.
TimerSchedule(c) ==
    LET table == schedule(timers, c, None, now + 60, "Explosion", TRUE, None)
        ok    == uq_tge_timer_one_active_per_campaign(table)
    IN  /\ op.calls < MaxOps
        /\ timers' = IF ok THEN table ELSE timers
        /\ Returned("schedule", c, Len(table), [ret |-> ok])
        /\ UNCHANGED NotTimers

\* A caller binds a timer to a message, in a transaction of its own.
AttachMessage(timer_id, external_message_id) ==
    LET r == attach_message(timers, timer_id, external_message_id)
    IN  /\ op.calls < MaxOps
        /\ timers' = r.table
        /\ Returned("attach_message", "", timer_id, [ret |-> r.ok])
        /\ UNCHANGED NotTimers

\* A caller cancels a campaign's active timers, in a transaction of its own.
CancelActive(c) ==
    /\ op.calls < MaxOps
    /\ timers' = cancel_active(timers, c, now)
    /\ Returned("cancel_active", c, 0,
                [rowcount |-> cancel_active_rowcount(timers, c)])
    /\ UNCHANGED NotTimers

\* A caller marks a timer expired, in a transaction of its own.
MarkExpired(timer_id) ==
    LET r == mark_expired(timers, timer_id, now)
    IN  /\ op.calls < MaxOps
        /\ timers' = r.table
        /\ Returned("mark_expired", "", timer_id, [ret |-> r.ok])
        /\ UNCHANGED NotTimers

\* A caller marks a timer consumed, in a transaction of its own.
MarkConsumed(timer_id) ==
    LET r == mark_consumed(timers, timer_id, now)
    IN  /\ op.calls < MaxOps
        /\ timers' = r.table
        /\ Returned("mark_consumed", "", timer_id, [ret |-> r.ok])
        /\ UNCHANGED NotTimers

\* A caller calls resolve_turn with no hook.
ResolveTurnStart(k) == Begin(k, TurnFlags, {"none"})

NextTimers ==
    \/ \E k \in Calls : ResolveTurnStart(k)
    \/ \E k \in Calls : PhaseA(k)
    \/ \E k \in Calls : CompleteTurn(k)
    \/ \E k \in Calls : PhaseCRead(k)
    \/ \E k \in Calls : PhaseCWrite(k)
    \/ \E k \in Calls : ReleaseClaimBestEffort(k)
    \/ \E c \in DOMAIN campaigns : TimerSchedule(c)
    \/ \E timer_id \in TimerIds, m \in MessageIds : AttachMessage(timer_id, m)
    \/ \E c \in DOMAIN campaigns : CancelActive(c)
    \/ \E timer_id \in TimerIds : MarkExpired(timer_id)
    \/ \E timer_id \in TimerIds : MarkConsumed(timer_id)

SpecTimers == InitDefault /\ [][NextTimers]_vars

\* ------------------------------------------------------------------ rewind

\* The second campaign of the tests (tests/test_engine_flow.py).
OtherCampaignIds == {"campaign-2"}

\* The store with both campaigns, and the engine with its defaults.
InitRewind ==
    InitWith(CampaignIds \cup OtherCampaignIds, {max_conflict_retries_default},
             {actor_resolver})

\* get_by_campaign_turn_id without the campaign in its WHERE (get_by_turn_id).
get_by_campaign_turn_id_AnyCampaign(table, campaign_id, turn_id) ==
    {snap \in table : snap.turn_id = turn_id}

\* SnapshotRepo.get_by_campaign_turn_id
get_by_campaign_turn_id(table, campaign_id, turn_id) ==
    {snap \in table : snap.campaign_id = campaign_id /\ snap.turn_id = turn_id}

\* The turns DELETE ... WHERE campaign_id = campaign_id AND id > turn_id hits.
TurnsAfter(table, campaign_id, turn_id) ==
    {i \in DOMAIN table : /\ table[i].campaign_id = campaign_id
                          /\ table[i].id > turn_id}

\* delete_after_turn whose subquery reads id >= turn_id.
delete_after_turn_FromTarget(table, turns_table, campaign_id, turn_id) ==
    LET ids == {turns_table[i].id :
                  i \in {j \in DOMAIN turns_table :
                           /\ turns_table[j].campaign_id = campaign_id
                           /\ turns_table[j].id >= turn_id}}
    IN  {snap \in table : snap.turn_id \notin ids}

\* SnapshotRepo.delete_after_turn: the snapshots whose turn_id is that of a
\* turn of the campaign after turn_id go.
delete_after_turn(table, turns_table, campaign_id, turn_id) ==
    LET ids == {turns_table[i].id : i \in TurnsAfter(turns_table, campaign_id, turn_id)}
    IN  {snap \in table : snap.turn_id \notin ids}

\* delete_after that leaves the campaign out of its WHERE.
delete_after_AnyCampaign(table, campaign_id, turn_id) ==
    LET Kept(row) == ~(row.id > turn_id)
    IN  [rows     |-> SelectSeq(table, Kept),
         rowcount |-> Cardinality({i \in DOMAIN table : table[i].id > turn_id})]

\* TurnRepo.delete_after: the rows that stay, and the rowcount.
delete_after(table, campaign_id, turn_id) ==
    LET Kept(row) == ~(row.campaign_id = campaign_id /\ row.id > turn_id)
    IN  [rows     |-> SelectSeq(table, Kept),
         rowcount |-> Cardinality(TurnsAfter(table, campaign_id, turn_id))]

\* json.loads(snapshot.players_json) and the "players" list of it.
PlayersData(players_json) ==
    LET data == parse_json_dict(players_json)
    IN  IF "players" \in DOMAIN data THEN data["players"] ELSE {}

\* The loop over the players payload without its assignment to player.xp.
RestorePlayers_KeepXp(table, campaign_id, players_data) ==
    [key \in DOMAIN table |->
        LET found == {pdata \in players_data :
                        key = Key(campaign_id, pdata.actor_id)}
        IN  IF found = {} THEN table[key]
            ELSE LET pdata == TheValue(found)
                 IN  [table[key] EXCEPT !.level = pdata.level,
                                        !.attributes_json = pdata.attributes_json,
                                        !.state_json = pdata.state_json]]

\* rewind_to_turn's loop over the players payload: a player of the payload
\* that still has a row gets its level, xp, attributes and state back.
RestorePlayers(table, campaign_id, players_data) ==
    [key \in DOMAIN table |->
        LET found == {pdata \in players_data :
                        key = Key(campaign_id, pdata.actor_id)}
        IN  IF found = {} THEN table[key]
            ELSE LET pdata == TheValue(found)
                 IN  [table[key] EXCEPT !.level = pdata.level,
                                        !.xp = pdata.xp,
                                        !.attributes_json = pdata.attributes_json,
                                        !.state_json = pdata.state_json]]

\* Everything but the tables rewind_to_turn writes, op and rewind.
NotRewound ==
    <<now, inflight, timers, config, emulator, pc, input, attempt, context,
      llm_output, phase_c, result, trace>>

\* The turn ids a caller may pass to rewind_to_turn: those of the narrator
\* turns, of any campaign.
TargetTurnIds == {turns[i].id : i \in {j \in DOMAIN turns : turns[j].kind = "narrator"}}

\* GameEngine.rewind_to_turn, its reads: the campaign and the snapshot.  A
\* missing snapshot ends the call.
RewindRead(campaign_id, target_turn_id) ==
    LET snapshot == get_by_campaign_turn_id(snapshots, campaign_id, target_turn_id)
    IN  /\ rewind.pc = "idle"
        /\ op.calls < MaxRewinds
        /\ IF campaign_id \notin DOMAIN campaigns
           THEN /\ Returned("rewind_to_turn", campaign_id, target_turn_id,
                            [status |-> "error", reason |-> "campaign_not_found"])
                /\ UNCHANGED rewind
           ELSE IF snapshot = None
           THEN /\ Returned("rewind_to_turn", campaign_id, target_turn_id,
                            [status |-> "error", reason |-> "snapshot_not_found"])
                /\ UNCHANGED rewind
           ELSE /\ rewind' = [pc |-> "write", campaign_id |-> campaign_id,
                              target_turn_id |-> target_turn_id,
                              row_version |-> campaigns[campaign_id].row_version,
                              snapshot |-> TheValue(snapshot)]
                /\ UNCHANGED op
        /\ UNCHANGED <<writes, NotRewound>>

\* GameEngine.rewind_to_turn, its writes: the CAS on the campaign, the
\* players, the deletes, the outbox event and the commit.  A failed CAS rolls
\* the transaction back.
RewindWrite ==
    LET c        == rewind.campaign_id
        t        == rewind.target_turn_id
        snapshot == rewind.snapshot
        cas == cas_apply_update(campaigns, c, rewind.row_version,
                  [state_json      |-> snapshot.campaign_state_json,
                   characters_json |-> snapshot.campaign_characters_json,
                   summary         |-> snapshot.campaign_summary,
                   last_narration  |-> snapshot.campaign_last_narration,
                   memory_visible_max_turn_id |-> Some(t)])
        deleted == delete_after(turns, c, t)
    IN  /\ rewind.pc = "write"
        /\ rewind' = NoRewind
        /\ IF ~cas.ok
           THEN /\ Returned("rewind_to_turn", c, t,
                            [status |-> "conflict", reason |-> "row_version_conflict"])
                /\ UNCHANGED writes
           ELSE /\ campaigns' = cas.table
                /\ players' = RestorePlayers(players, c, PlayersData(snapshot.players_json))
                /\ snapshots' = delete_after_turn(snapshots, turns, c, t)
                /\ turns' = deleted.rows
                /\ outbox' = outbox_add(outbox, c, None, "memory_prune_requested",
                                        <<"rewind", t>>, [after_turn_id |-> t])
                /\ Returned("rewind_to_turn", c, t,
                            [status |-> "ok", deleted_turns |-> deleted.rowcount])
                /\ UNCHANGED timers
        /\ UNCHANGED NotRewound

\* ResolveTurnInput's defaults: record_player_turn, allow_timer_instruction.
DefaultFlags == {<<TRUE, TRUE>>}

\* The actors a caller that resolves one turn after the other may pass:
\* those that have a player row, and the first that has none.
ActorIdsSeen ==
    LET played == {key[2] : key \in DOMAIN players}
    IN  {ActorOrder[i] : i \in {j \in DOMAIN ActorOrder :
                                    \A h \in 1..(j - 1) : ActorOrder[h] \in played}}

\* The campaigns are interchangeable: a turn is resolved for the first
\* campaign, or for the second once the first has had a player.
CampaignOrder == <<"campaign-1", "campaign-2">>

CampaignIdsSeen ==
    LET played == {key[1] : key \in DOMAIN players}
    IN  {CampaignOrder[i] : i \in {j \in DOMAIN CampaignOrder :
                                    \A h \in 1..(j - 1) : CampaignOrder[h] \in played}}

\* A caller calls resolve_turn with the defaults and no hook.
ResolveTurnNext(k) ==
    /\ trace[k].phase_a < MaxTurns
    /\ BeginWith(k, CampaignIdsSeen, ActorIdsSeen, DefaultFlags, {"none"})

\* resolve_turn has returned: its caller is free to call again.
ResolveTurnReturn(k) ==
    /\ pc[k] = "done"
    /\ pc' = [pc EXCEPT ![k] = "idle"]
    /\ input' = [input EXCEPT ![k] = NoInput]
    /\ attempt' = [attempt EXCEPT ![k] = 0]
    /\ context' = [context EXCEPT ![k] = NoContext]
    /\ llm_output' = [llm_output EXCEPT ![k] = NoOutput]
    /\ result' = [result EXCEPT ![k] = NoResult]
    /\ trace' = [trace EXCEPT ![k] = [NoTrace EXCEPT !.phase_a = trace[k].phase_a]]
    /\ UNCHANGED <<now, db, config, callers, phase_c>>

\* The caller that resolves one turn after the other.
Caller == {CallOrder[1]}

NextRewind ==
    \/ \E k \in Caller : ResolveTurnNext(k)
    \/ \E k \in Caller : PhaseA(k)
    \/ \E k \in Caller : CompleteTurn(k)
    \/ \E k \in Caller : PhaseCRead(k)
    \/ \E k \in Caller : PhaseCWrite(k)
    \/ \E k \in Caller : ReleaseClaimBestEffort(k)
    \/ \E k \in Caller : ResolveTurnReturn(k)
    \/ \E c \in DOMAIN campaigns, t \in TargetTurnIds : RewindRead(c, t)
    \/ RewindWrite

SpecRewind == InitRewind /\ [][NextRewind]_vars

\* ----------------------------------------------------------- memory filter

\* The turn_id of a memory hit: an int, the text of an int, or nothing that
\* int() accepts (the key is missing, or holds None).
TurnIdValues ==
    {[kind |-> "int", value |-> 2], [kind |-> "str", value |-> 3],
     [kind |-> "none", value |-> 0]}

\* The hits a memory search hands over (tests/test_engine_flow.py).
Hits == {[turn_id |-> v, content |-> "older"] : v \in TurnIdValues}

\* The lists of at most MaxHits hits.
HitLists == UNION {[1..n -> Hits] : n \in 0..MaxHits}

\* int(hit.get("turn_id")): the number, or nothing where int() raises.
int_turn_id(hit) ==
    IF hit.turn_id.kind \in {"int", "str"} THEN Some(hit.turn_id.value) ELSE None

\* The filter with turn_id < watermark for its test.
filter_memory_hits_by_visibility_Below(table, campaign_id, hits) ==
    IF campaign_id \notin DOMAIN table THEN <<>>
    ELSE LET watermark == table[campaign_id].memory_visible_max_turn_id
             Visible(hit) == /\ int_turn_id(hit) # None
                             /\ TheValue(int_turn_id(hit)) < TheValue(watermark)
         IN  IF watermark = None THEN hits ELSE SelectSeq(hits, Visible)

\* GameEngine.filter_memory_hits_by_visibility
filter_memory_hits_by_visibility(table, campaign_id, hits) ==
    IF campaign_id \notin DOMAIN table THEN <<>>
    ELSE LET watermark == table[campaign_id].memory_visible_max_turn_id
             Visible(hit) == /\ int_turn_id(hit) # None
                             /\ TheValue(int_turn_id(hit)) <= TheValue(watermark)
         IN  IF watermark = None THEN hits ELSE SelectSeq(hits, Visible)

\* The caller that resolves the turns filters the hits of a memory search
\* between two turns, once: a read, which op records.
FilterMemoryHits(campaign_id, hits) ==
    /\ \A k \in Caller : pc[k] = "idle"
    /\ op = NoOp
    /\ op' = [NoOp EXCEPT
                !.name = "filter_memory_hits_by_visibility",
                !.campaign_id = campaign_id,
                !.given_hits = hits,
                !.hits = filter_memory_hits_by_visibility(campaigns, campaign_id, hits),
                !.calls = op.calls]
    /\ UNCHANGED <<now, db, config, rewind, emulator, pc, input, attempt, context,
                   llm_output, phase_c, result, trace>>

NextFilter ==
    \/ \E k \in Caller : ResolveTurnNext(k)
    \/ \E k \in Caller : PhaseA(k)
    \/ \E k \in Caller : CompleteTurn(k)
    \/ \E k \in Caller : PhaseCRead(k)
    \/ \E k \in Caller : PhaseCWrite(k)
    \/ \E k \in Caller : ResolveTurnReturn(k)
    \/ \E c \in DOMAIN campaigns, hits \in HitLists : FilterMemoryHits(c, hits)

SpecFilter == InitRewind /\ [][NextFilter]_vars

\* ---------------------------------------------------------- emulator play

\* The session the caller's play actions come from: that of its channel.
SessionIds == {Some("session-1")}

\* The outputs the emulator's port may return besides the scene: the player
\* picks the lamp up, and the player hands it to the second actor.
LampOutput ==
    [narration           |-> <<"You pick up the lamp.">>,
     state_update        |-> EmptyMap,
     summary_update      |-> None,
     xp_awarded          |-> 0,
     player_state_update |-> ("inventory" :> "[lamp]"),
     scene_image_prompt  |-> None,
     timer_instruction   |-> None,
     character_updates   |-> EmptyMap,
     give_item           |-> None]

GiveOutput ==
    [narration           |-> <<"You hand the lamp over.">>,
     state_update        |-> EmptyMap,
     summary_update      |-> None,
     xp_awarded          |-> 0,
     player_state_update |-> EmptyMap,
     scene_image_prompt  |-> None,
     timer_instruction   |-> None,
     character_updates   |-> EmptyMap,
     give_item           |-> Some([item |-> "lamp", to_actor_id |-> Some("actor-2"),
                                   to_discord_mention |-> None])]

PlayOutputs == {SceneOutput, LampOutput, GiveOutput}

\* The emulator's port answers with one of its outputs.
CompletePlayTurn(k) == CompleteTurnWith(k, PlayOutputs)

\* ZorkEmulator.get_or_create_player: a missing row is created and committed.
get_or_create_player(table, campaign_id, actor_id) ==
    IF Key(campaign_id, actor_id) \in DOMAIN table THEN table
    ELSE (Key(campaign_id, actor_id) :> player_create(campaign_id, actor_id)) @@ table

\* ZorkEmulator._record_simple_turn_pair: the player turn and the narrator
\* turn are added and the campaign's last_narration is set through the ORM,
\* in one session.
_record_simple_turn_pair(campaign_id, actor_id, session_id, action_text, narration) ==
    [turns     |-> turns_add(
                      turns_add(turns, campaign_id, session_id, actor_id,
                                "player", action_text),
                      campaign_id, session_id, actor_id, "narrator", narration),
     campaigns |-> IF campaign_id \in DOMAIN campaigns
                   THEN [campaigns EXCEPT ![campaign_id].last_narration = Some(narration)]
                   ELSE campaigns]

\* ZorkEmulator.play_action with the action "inventory", sent from a thread
\* channel by a caller that has no turn running: the campaign is found, the
\* player is found or created, a campaign that has a summary asks a player
\* without a character name for an identity first, and the inventory is
\* answered with a simple turn pair.  ("look" takes the same way once the
\* player's state holds a room description, which no output of the model
\* sets.)
InventoryShortcut(k, campaign_id, actor_id, session_id) ==
    LET table        == get_or_create_player(players, campaign_id, actor_id)
        player_state == parse_json_dict(table[Key(campaign_id, actor_id)].state_json)
        formatted    == _format_inventory(player_state)
        narration    == IF formatted # None THEN <<TheValue(formatted)>>
                        ELSE <<"Inventory: empty">>
        needs_identity == campaigns[campaign_id].summary # <<>>
        pair == _record_simple_turn_pair(campaign_id, actor_id, session_id,
                                         <<"inventory">>, narration)
    IN  /\ pc[k] = "idle"
        /\ rewind.pc = "idle"
        /\ op.calls < MaxOps
        /\ campaign_id \in DOMAIN campaigns
        /\ players' = table
        /\ IF needs_identity
           THEN /\ UNCHANGED <<campaigns, turns>>
                /\ Returned("play_action", campaign_id, 0, [status |-> "identity"])
           ELSE /\ turns' = pair.turns
                /\ campaigns' = pair.campaigns
                /\ Returned("play_action", campaign_id, 0, [status |-> "ok"])
        /\ UNCHANGED <<now, inflight, snapshots, timers, outbox, config, rewind,
                       emulator, pc, input, attempt, context, llm_output, phase_c,
                       result, trace>>

\* A caller plays one action after the other, from its session, out of
\* character never.
PlayActionNext(k) ==
    /\ rewind.pc = "idle"
    /\ trace[k].phase_a < MaxTurns
    /\ \E c \in CampaignIds, a \in ActorIdsSeen, session_id \in SessionIds :
          PlayActionBegin(k, c, a, session_id, <<TRUE, TRUE>>)

\* play_action has returned: its caller is free to call again.
PlayActionAgain(k) ==
    /\ pc[k] = "returned"
    /\ pc' = [pc EXCEPT ![k] = "idle"]
    /\ input' = [input EXCEPT ![k] = NoInput]
    /\ attempt' = [attempt EXCEPT ![k] = 0]
    /\ context' = [context EXCEPT ![k] = NoContext]
    /\ llm_output' = [llm_output EXCEPT ![k] = NoOutput]
    /\ result' = [result EXCEPT ![k] = NoResult]
    /\ trace' = [trace EXCEPT ![k] = [NoTrace EXCEPT !.phase_a = trace[k].phase_a]]
    /\ pre_inventory_rich' = [pre_inventory_rich EXCEPT ![k] = <<>>]
    /\ UNCHANGED <<now, db, config, op, rewind, _pending_timers, tasks, emits,
                   _inflight_turns, loaded_player, phase_c>>

\* The caller rewinds between two of its play actions: rewind_to_turn is
\* called once play_action has returned.
RewindNext(k, campaign_id, target_turn_id) ==
    /\ pc[k] \in {"idle", "returned"}
    /\ RewindRead(campaign_id, target_turn_id)

NextPlay ==
    \/ \E k \in Caller : PlayActionNext(k)
    \/ \E k \in Caller : PhaseA(k)
    \/ \E k \in Caller : CompletePlayTurn(k)
    \/ \E k \in Caller : PhaseCRead(k)
    \/ \E k \in Caller : PhaseCWrite(k)
    \/ \E k \in Caller : PlayActionReturn(k)
    \/ \E k \in Caller : PlayActionAgain(k)
    \/ \E k \in Caller, c \in CampaignIds, a \in ActorIdsSeen, session_id \in SessionIds :
          InventoryShortcut(k, c, a, session_id)
    \/ \E k \in Caller, c \in DOMAIN campaigns, t \in TargetTurnIds : RewindNext(k, c, t)
    \/ RewindWrite

SpecPlay == InitDefault /\ [][NextPlay]_vars

\* --------------------------------------------------------------- give item

\* The output of tests/test_engine_flow.py whose give_item names its target
\* by a mention only.
UnresolvedGiveOutput ==
    [narration           |-> <<"You try to hand it over.">>,
     state_update        |-> EmptyMap,
     summary_update      |-> None,
     xp_awarded          |-> 0,
     player_state_update |-> EmptyMap,
     scene_image_prompt  |-> None,
     timer_instruction   |-> None,
     character_updates   |-> EmptyMap,
     give_item           |-> Some([item |-> "rusty key", to_actor_id |-> None,
                                   to_discord_mention |-> Some("<@999999>")])]

\* The port answers with a give_item that names a mention, with one that
\* names an actor, or with none.
GiveOutputs == {UnresolvedGiveOutput, GiveOutput, RoadOutput}

\* The resolvers an engine may be built with: none, one that resolves no
\* mention, one that resolves the mention of the tests.
Resolvers == {None, Some(EmptyMap), Some(("<@999999>" :> "actor-2"))}

InitGive == InitWith(CampaignIds, {max_conflict_retries_default}, Resolvers)

CompleteGiveTurn(k) == CompleteTurnWith(k, GiveOutputs)

NextGive ==
    \/ Tick
    \/ \E k \in Caller : ResolveTurnNext(k)
    \/ \E k \in Caller : PhaseA(k)
    \/ \E k \in Caller : CompleteGiveTurn(k)
    \/ \E k \in Caller : PhaseCRead(k)
    \/ \E k \in Caller : PhaseCWrite(k)
    \/ \E k \in Caller : ReleaseClaimBestEffort(k)
    \/ \E k \in Caller : ResolveTurnReturn(k)

SpecGive == InitGive /\ [][NextGive]_vars

\* ------------------------------------------------------------- exceptions

\* str(e) of the exceptions a collaborator raises.
ErrorMessages == {"boom"}

\* except Exception as e: the transaction the exception left, if any, is
\* rolled back by the unit of work and resolve_turn goes on to release the
\* claim of the attempt.
RaiseException(k) ==
    /\ \E e \in ErrorMessages : trace' = [trace EXCEPT ![k].error = e]
    /\ pc' = [pc EXCEPT ![k] = "release_error"]
    /\ phase_c' = [phase_c EXCEPT ![k] = NoRead]
    /\ UNCHANGED <<now, db, config, callers, input, attempt, context, llm_output, result>>

\* Phase A raises something other than TurnBusyError before its commit.
PhaseARaises(k) == pc[k] = "phase_a" /\ RaiseException(k)

\* self._llm.complete_turn raises.
CompleteTurnRaises(k) == pc[k] = "llm" /\ RaiseException(k)

\* The hook raises.
BeforePhaseCRaises(k) ==
    /\ pc[k] = "hook"
    /\ before_phase_c[k] = "raise"
    /\ RaiseException(k)

\* Phase C raises something other than StaleClaimError before its commit.
PhaseCRaises(k) == pc[k] \in {"phase_c", "phase_c_write"} /\ RaiseException(k)

\* except Exception, the retry that follows StaleClaimError taken here too.
ReturnError_Retry(k) ==
    LET c == input[k].campaign_id
        a == input[k].actor_id
    IN  /\ pc[k] = "release_error"
        /\ inflight' \in {release(inflight, c, a, ClaimToken(k)), inflight}
        /\ IF attempt[k] < max_conflict_retries
           THEN /\ attempt' = [attempt EXCEPT ![k] = @ + 1]
                /\ pc' = [pc EXCEPT ![k] = "phase_a"]
                /\ UNCHANGED result
           ELSE /\ result' = [result EXCEPT ![k] =
                                [NoResult EXCEPT !.status = "error",
                                                 !.conflict_reason = trace[k].error]]
                /\ pc' = [pc EXCEPT ![k] = "done"]
                /\ UNCHANGED attempt
        /\ UNCHANGED <<now, campaigns, players, turns, snapshots, timers, outbox,
                       config, callers, input, context, llm_output, phase_c, trace>>

\* except Exception: _release_claim_best_effort in a transaction of its own,
\* whose own failure is swallowed and leaves the row, then status=error
\* with str(e).
ReturnError(k) ==
    LET c == input[k].campaign_id
        a == input[k].actor_id
    IN  /\ pc[k] = "release_error"
        /\ inflight' \in {release(inflight, c, a, ClaimToken(k)), inflight}
        /\ result' = [result EXCEPT ![k] =
                        [NoResult EXCEPT !.status = "error",
                                         !.conflict_reason = trace[k].error]]
        /\ pc' = [pc EXCEPT ![k] = "done"]
        /\ UNCHANGED <<now, campaigns, players, turns, snapshots, timers, outbox,
                       config, callers, input, attempt, context, llm_output, phase_c, trace>>

\* The hooks a call may pass when a hook may raise.
RaisingHooks(k) == Hooks(k) \cup {"raise"}

\* A caller of the engine calls resolve_turn.
StartWithHook(k) == Begin(k, DefaultFlags, RaisingHooks(k))

NextFaults ==
    \/ Tick
    \/ \E k \in Calls : StartWithHook(k)
    \/ \E k \in Calls : PhaseA(k)
    \/ \E k \in Calls : PhaseARaises(k)
    \/ \E k \in Calls : CompleteTurn(k)
    \/ \E k \in Calls : CompleteTurnRaises(k)
    \/ \E k \in Calls : BeforePhaseC(k)
    \/ \E k \in Calls : BeforePhaseCRaises(k)
    \/ \E k \in Calls : PhaseCRead(k)
    \/ \E k \in Calls : PhaseCWrite(k)
    \/ \E k \in Calls : PhaseCRaises(k)
    \/ \E k \in Calls : ReleaseClaimBestEffort(k)
    \/ \E k \in Calls : ReturnError(k)

SpecFaults == InitDefault /\ [][NextFaults]_vars

\* ------------------------------------------------------ timer instruction

\* An output whose timer_instruction asks for less than the minimum delay
\* and cannot be interrupted.
CollapseOutput ==
    [narration           |-> <<"The floor creaks.">>,
     state_update        |-> EmptyMap,
     summary_update      |-> None,
     xp_awarded          |-> 0,
     player_state_update |-> EmptyMap,
     scene_image_prompt  |-> None,
     timer_instruction   |-> Some([delay_seconds |-> 0,
                                   event_text |-> "The floor collapses.",
                                   interruptible |-> FALSE, interrupt_action |-> None]),
     character_updates   |-> EmptyMap,
     give_item           |-> None]

ScheduleOutputs == {SceneOutput, CollapseOutput, RoadOutput}

CompleteScheduleTurn(k) == CompleteTurnWith(k, ScheduleOutputs)

NextSchedule ==
    \/ Tick
    \/ \E k \in Calls : Start(k)
    \/ \E k \in Calls : PhaseA(k)
    \/ \E k \in Calls : CompleteScheduleTurn(k)
    \/ \E k \in Calls : BeforePhaseC(k)
    \/ \E k \in Calls : PhaseCRead(k)
    \/ \E k \in Calls : PhaseCWrite(k)
    \/ \E k \in Calls : ReleaseClaimBestEffort(k)

SpecSchedule == InitDefault /\ [][NextSchedule]_vars

\* -------------------------------------------------------------- countdowns

\* ZorkEmulator.is_timed_events_enabled: true unless the campaign's state
\* says otherwise.
is_timed_events_enabled(campaign) ==
    LET campaign_state == parse_json_dict(campaign.state_json)
    IN  IF "timed_events_enabled" \in DOMAIN campaign_state
        THEN campaign_state["timed_events_enabled"] \notin {"false", JsonNull}
        ELSE TRUE

\* The multipliers set_speed_multiplier is called with, in tenths, and the
\* text of the float it stores.
SpeedInputs == {0, 5, 20, 1000}

SpeedText(tenths) == CHOOSE text \in DOMAIN SPEEDS : SPEEDS[text] = tenths

\* ZorkEmulator.set_speed_multiplier: the multiplier is clamped to 0.1..10.0
\* and written to the campaign's state through the ORM.
set_speed_multiplier(table, campaign_id, multiplier) ==
    LET clamped == Max(1, Min(100, multiplier))
        campaign_state == parse_json_dict(table[campaign_id].state_json)
    IN  [table EXCEPT ![campaign_id].state_json =
            dump_json(("speed_multiplier" :> SpeedText(clamped)) @@ campaign_state)]

\* The host sets the campaign's speed before the campaign's first turn.
SetSpeedMultiplier(campaign_id, multiplier) ==
    /\ campaign_id \in DOMAIN campaigns
    /\ turns = <<>>
    /\ \A k \in Calls : pc[k] = "idle"
    /\ "speed_multiplier" \notin DOMAIN parse_json_dict(campaigns[campaign_id].state_json)
    /\ campaigns' = set_speed_multiplier(campaigns, campaign_id, multiplier)
    /\ UNCHANGED <<now, players, inflight, turns, snapshots, timers, outbox, config,
                   callers, pc, input, attempt, context, llm_output, phase_c, result,
                   trace>>

\* How many turns the host records beside the engine's.
MaxHostTurns == 1

\* The host records a player's message as a turn of its own
\* (tests/test_zork_emulator_parity_core.py), while a countdown runs.
AddPlayerTurn(campaign_id, actor_id) ==
    /\ op.calls < MaxHostTurns
    /\ \E i \in DOMAIN tasks : tasks[i].state = "sleeping"
    /\ Key(campaign_id, actor_id) \in DOMAIN players
    /\ turns' = turns_add(turns, campaign_id, None, actor_id, "player", <<"look">>)
    /\ Returned("add_turn", campaign_id, 0, [status |-> "ok"])
    /\ UNCHANGED <<now, campaigns, players, inflight, snapshots, timers, outbox, config,
                   rewind, emulator, pc, input, attempt, context, llm_output, phase_c,
                   result, trace>>

\* The race guard's window, in seconds.
RACE_GUARD_SECONDS == 5

\* The campaign's turn of the highest id, if it has one.
LatestTurn(campaign_id) ==
    LET own == {i \in DOMAIN turns : turns[i].campaign_id = campaign_id}
    IN  IF own = {} THEN None
        ELSE Some(turns[CHOOSE i \in own : \A j \in own : turns[j].id <= turns[i].id])

\* The race guard without the age of the turn.
RaceGuard_AnyAge(campaign_id) ==
    LET latest_turn == LatestTurn(campaign_id)
    IN  /\ latest_turn # None
        /\ TheValue(latest_turn).kind = "player"

\* The race guard of _execute_timed_event: the latest turn is a player's and
\* younger than the window.
RaceGuard(campaign_id) ==
    LET latest_turn == LatestTurn(campaign_id)
    IN  /\ latest_turn # None
        /\ TheValue(latest_turn).kind = "player"
        /\ now - TheValue(latest_turn).created_at < RACE_GUARD_SECONDS

\* _execute_timed_event leaving allow_timer_instruction at its default.
TimerTask_AllowTimer(i, k) ==
    LET task   == tasks[i]
        c      == task.campaign_id
        actors == {key[2] : key \in {x \in DOMAIN players : x[1] = c}}
        skip   == \/ c \notin DOMAIN campaigns
                  \/ ~is_timed_events_enabled(campaigns[c])
                  \/ RaceGuard(c)
                  \/ actors = {}
    IN  /\ task.state = "sleeping"
        /\ now >= task.started_at + task.delay_seconds
        /\ pc[k] = "idle"
        /\ _pending_timers' = cancel_pending_timer(_pending_timers, c)
        /\ IF skip
           THEN /\ tasks' = [tasks EXCEPT ![i].state = "skipped"]
                /\ UNCHANGED <<players, input, before_phase_c, attempt, pc>>
           ELSE \E a \in actors :
                  /\ players' = increment_player_stat(players, Key(c, a), "timers_missed")
                  /\ input' = [input EXCEPT ![k] =
                                  [campaign_id |-> c, actor_id |-> a, session_id |-> None,
                                   record_player_turn |-> FALSE,
                                   allow_timer_instruction |-> TRUE]]
                  /\ before_phase_c' = [before_phase_c EXCEPT ![k] = "none"]
                  /\ attempt' = [attempt EXCEPT ![k] = 0]
                  /\ pc' = [pc EXCEPT ![k] = "phase_a"]
                  /\ tasks' = [tasks EXCEPT ![i].state = "resolving"]
        /\ UNCHANGED <<now, campaigns, inflight, turns, snapshots, timers, outbox,
                       max_conflict_retries, _actor_resolver, op, rewind,
                       pre_inventory_rich, emits, _inflight_turns, loaded_player, context,
                       llm_output, phase_c, result, trace>>

\* ZorkEmulator._timer_task once its sleep is over, up to the call of
\* resolve_turn in _execute_timed_event: the campaign's pending entry is
\* popped, whichever task it names; the event is skipped when the campaign
\* is gone, timed events are off, the race guard holds or the campaign has no
\* player; else the most recently active player (any player of the campaign
\* here, last_active_at not being kept) gets a missed timer counted and
\* resolve_turn is called for it with both flags false and no session.
TimerTask(i, k) ==
    LET task   == tasks[i]
        c      == task.campaign_id
        actors == {key[2] : key \in {x \in DOMAIN players : x[1] = c}}
        skip   == \/ c \notin DOMAIN campaigns
                  \/ ~is_timed_events_enabled(campaigns[c])
                  \/ RaceGuard(c)
                  \/ actors = {}
    IN  /\ task.state = "sleeping"
        /\ now >= task.started_at + task.delay_seconds
        /\ pc[k] = "idle"
        /\ _pending_timers' = cancel_pending_timer(_pending_timers, c)
        /\ IF skip
           THEN /\ tasks' = [tasks EXCEPT ![i].state = "skipped"]
                /\ UNCHANGED <<players, input, before_phase_c, attempt, pc>>
           ELSE \E a \in actors :
                  /\ players' = increment_player_stat(players, Key(c, a), "timers_missed")
                  /\ input' = [input EXCEPT ![k] =
                                  [campaign_id |-> c, actor_id |-> a, session_id |-> None,
                                   record_player_turn |-> FALSE,
                                   allow_timer_instruction |-> FALSE]]
                  /\ before_phase_c' = [before_phase_c EXCEPT ![k] = "none"]
                  /\ attempt' = [attempt EXCEPT ![k] = 0]
                  /\ pc' = [pc EXCEPT ![k] = "phase_a"]
                  /\ tasks' = [tasks EXCEPT ![i].state = "resolving"]
        /\ UNCHANGED <<now, campaigns, inflight, turns, snapshots, timers, outbox,
                       max_conflict_retries, _actor_resolver, op, rewind,
                       pre_inventory_rich, emits, _inflight_turns, loaded_player, context,
                       llm_output, phase_c, result, trace>>

\* _execute_timed_event once resolve_turn has returned: on ok the narration,
\* its footer stripped, is given to the timer effects port, if there is any
\* left; the task is over.
TimedEventReturn(k) ==
    LET narration == IF result[k].narration # None
                     THEN _strip_narration_footer(TheValue(result[k].narration))
                     ELSE <<>>
    IN  /\ pc[k] = "done"
        /\ \E i \in DOMAIN tasks :
              /\ tasks[i].state = "resolving"
              /\ tasks' = [tasks EXCEPT ![i].state = "done"]
        /\ emits' = IF result[k].status = "ok" /\ narration # <<>>
                    THEN Append(emits, [campaign_id |-> input[k].campaign_id,
                                        actor_id |-> input[k].actor_id,
                                        narration |-> narration])
                    ELSE emits
        /\ pc' = [pc EXCEPT ![k] = "idle"]
        /\ input' = [input EXCEPT ![k] = NoInput]
        /\ attempt' = [attempt EXCEPT ![k] = 0]
        /\ context' = [context EXCEPT ![k] = NoContext]
        /\ llm_output' = [llm_output EXCEPT ![k] = NoOutput]
        /\ result' = [result EXCEPT ![k] = NoResult]
        /\ trace' = [trace EXCEPT ![k] = NoTrace]
        /\ UNCHANGED <<now, db, config, op, rewind, _pending_timers, pre_inventory_rich,
                       _inflight_turns, loaded_player, phase_c>>

\* The call that plays the player's actions, and the call timed events are
\* resolved in.
TimerCaller == {CallOrder[2]}

\* The player plays one action after the other from its session.
PlayTimedAction(k) ==
    /\ trace[k].phase_a < MaxTurns
    /\ \E c \in CampaignIds, session_id \in SessionIds :
          PlayActionBegin(k, c, ActorOrder[1], session_id, <<TRUE, TRUE>>)

NextCountdown ==
    \/ Tick
    \/ \E c \in CampaignIds : AddPlayerTurn(c, ActorOrder[1])
    \/ \E k \in Caller : PlayTimedAction(k)
    \/ \E k \in Calls : PhaseA(k)
    \/ \E k \in Calls : CompleteScheduleTurn(k)
    \/ \E k \in Calls : PhaseCRead(k)
    \/ \E k \in Calls : PhaseCWrite(k)
    \/ \E k \in Calls : ReleaseClaimBestEffort(k)
    \/ \E k \in Caller : PlayActionReturn(k)
    \/ \E k \in Caller : PlayActionAgain(k)
    \/ \E i \in DOMAIN tasks, k \in TimerCaller : TimerTask(i, k)
    \/ \E k \in TimerCaller : TimedEventReturn(k)

SpecCountdown == InitDefault /\ [][NextCountdown]_vars

\* Time passes between two play actions.
TickBetweenTurns ==
    /\ \A k \in Calls : pc[k] \in {"idle", "returned"}
    /\ Tick

\* The host sets a speed, the player plays from its session; no countdown
\* is let to end.
NextSpeed ==
    \/ TickBetweenTurns
    \/ \E c \in CampaignIds, m \in SpeedInputs : SetSpeedMultiplier(c, m)
    \/ \E k \in Caller : PlayTimedAction(k)
    \/ \E k \in Caller : PhaseA(k)
    \/ \E k \in Caller : CompleteScheduleTurn(k)
    \/ \E k \in Caller : PhaseCRead(k)
    \/ \E k \in Caller : PhaseCWrite(k)
    \/ \E k \in Caller : PlayActionReturn(k)
    \/ \E k \in Caller : PlayActionAgain(k)

SpecSpeed == InitDefault /\ [][NextSpeed]_vars

\* ---------------------------------------------------------- channel rewind

\* The sessions of the campaign, one for each of two channels
\* (tests/test_zork_emulator_compat.py).
GameSessions ==
    ("session-1" :> [campaign_id |-> "campaign-1", surface_key |-> "discord:100",
                     surface_channel_id |-> Some("100"), surface_thread_id |-> None])
    @@ ("session-2" :> [campaign_id |-> "campaign-1", surface_key |-> "discord:200",
                        surface_channel_id |-> Some("200"), surface_thread_id |-> None])

\* The sessions a play action may come from.
ChannelSessionIds == {Some(s) : s \in DOMAIN GameSessions}

\* The channels a rewind may name: the first session's by its id, the
\* second's by its key, and a channel of no session.
ChannelIds == {"100", "discord:200", "300"}

\* The play actions of the channels: MaxChannelTurns at most.
MaxChannelTurns == 3

\* The ids of the campaign's sessions whose channel, thread or key is
\* channel_id.
scoped_session_ids(campaign_id, channel_id) ==
    {s \in DOMAIN GameSessions :
        /\ GameSessions[s].campaign_id = campaign_id
        /\ \/ GameSessions[s].surface_channel_id = Some(channel_id)
           \/ GameSessions[s].surface_thread_id = Some(channel_id)
           \/ GameSessions[s].surface_key = channel_id}

\* turn_ids_to_delete without the filter on the session.
turn_ids_to_delete_AllSessions(table, campaign_id, target_turn_id, channel_id) ==
    {table[i].id : i \in TurnsAfter(table, campaign_id, target_turn_id)}

\* The ids of the campaign's turns after target_turn_id whose session is one
\* of the scoped sessions; none when no session is scoped.
turn_ids_to_delete(table, campaign_id, target_turn_id, channel_id) ==
    LET scoped == scoped_session_ids(campaign_id, channel_id)
    IN  {table[i].id :
            i \in {j \in TurnsAfter(table, campaign_id, target_turn_id) :
                     \E s \in scoped : table[j].session_id = Some(s)}}

\* ZorkEmulator._execute_rewind_channel_scoped, one transaction: without the
\* snapshot of the target it returns None; else the campaign takes the
\* snapshot's columns, memory_visible_max_turn_id = target and one
\* row_version more, the players of the payload are restored, the scoped
\* turns after the target go with their snapshots, and the target and the
\* rowcount of the turns' DELETE are returned.
ExecuteRewindChannelScoped(campaign_id, target_turn_id, channel_id) ==
    LET snapshot == get_by_campaign_turn_id(snapshots, campaign_id, target_turn_id)
        ids      == turn_ids_to_delete(turns, campaign_id, target_turn_id, channel_id)
        Kept(row) == row.id \notin ids
    IN  /\ op.calls < MaxRewinds
        /\ IF snapshot = None \/ campaign_id \notin DOMAIN campaigns
           THEN /\ Returned("execute_rewind", campaign_id, target_turn_id,
                            [ret |-> FALSE, channel_id |-> channel_id])
                /\ UNCHANGED writes
           ELSE LET snap == TheValue(snapshot)
                IN  /\ campaigns' =
                          [campaigns EXCEPT ![campaign_id] =
                              [@ EXCEPT !.state_json = snap.campaign_state_json,
                                        !.characters_json = snap.campaign_characters_json,
                                        !.summary = snap.campaign_summary,
                                        !.last_narration = snap.campaign_last_narration,
                                        !.memory_visible_max_turn_id = Some(target_turn_id),
                                        !.row_version = Max(@, 0) + 1]]
                    /\ players' = RestorePlayers(players, campaign_id,
                                                 PlayersData(snap.players_json))
                    /\ snapshots' = {s \in snapshots : s.turn_id \notin ids}
                    /\ turns' = SelectSeq(turns, Kept)
                    /\ Returned("execute_rewind", campaign_id, target_turn_id,
                                [ret |-> TRUE, deleted_turns |-> Cardinality(ids),
                                 channel_id |-> channel_id])
                    /\ UNCHANGED <<timers, outbox>>
        /\ UNCHANGED <<rewind, NotRewound>>

\* The player plays one action after the other, each from one of the
\* channels' sessions.
PlayChannelAction(k) ==
    /\ trace[k].phase_a < MaxChannelTurns
    /\ \E c \in CampaignIds, session_id \in ChannelSessionIds :
          PlayActionBegin(k, c, ActorOrder[1], session_id, <<TRUE, TRUE>>)

\* The port's answer to a channel's action (StubLLM of the test; the road
\* changes the player's state and xp).
CompleteChannelTurn(k) == CompleteTurnWith(k, {RoadOutput})

NextChannel ==
    \/ \E k \in Caller : PlayChannelAction(k)
    \/ \E k \in Caller : PhaseA(k)
    \/ \E k \in Caller : CompleteChannelTurn(k)
    \/ \E k \in Caller : PhaseCRead(k)
    \/ \E k \in Caller : PhaseCWrite(k)
    \/ \E k \in Caller : PlayActionReturn(k)
    \/ \E k \in Caller : PlayActionAgain(k)
    \/ \E c \in CampaignIds, t \in TargetTurnIds, ch \in ChannelIds :
          ExecuteRewindChannelScoped(c, t, ch)

SpecChannel == InitDefault /\ [][NextChannel]_vars

\* ------------------------------------------------------------- apply_patch

\* The keys of the states and patches apply_patch is given.
PatchKeys == {"k", "quest"}

\* The values of a key: None, a string, a nested object.
JsonValues == {JsonNull, "v"} \cup ObjectTexts

\* The dicts with these keys and values.
JsonMaps == UNION {[keys -> JsonValues] : keys \in SUBSET PatchKeys}

\* The caller holds a base and a patch.
InitPatch ==
    /\ InitStore(CampaignIds, {max_conflict_retries_default}, {actor_resolver})
    /\ \E base \in JsonMaps, patch \in JsonMaps :
          op = [NoOp EXCEPT !.args = <<base, patch>>]

\* apply_patch(base, patch) is called: merged is a new dict, the arguments
\* are as they were.
ApplyPatch ==
    /\ op.name = "none"
    /\ op' = [op EXCEPT !.name = "apply_patch", !.calls = @ + 1,
                        !.value = <<apply_patch(op.args[1], op.args[2])>>]
    /\ UNCHANGED <<now, db, config, rewind, emulator, pc, input, attempt, context,
                   llm_output, phase_c, result, trace>>

\* apply_patch(merged, patch) is called with what the first call returned.
ApplyPatchAgain ==
    /\ op.name = "apply_patch"
    /\ Len(op.value) = 1
    /\ op' = [op EXCEPT !.calls = @ + 1,
                        !.value = Append(@, apply_patch(op.value[1], op.args[2]))]
    /\ UNCHANGED <<now, db, config, rewind, emulator, pc, input, attempt, context,
                   llm_output, phase_c, result, trace>>

NextPatch ==
    \/ ApplyPatch
    \/ ApplyPatchAgain

SpecPatch == InitPatch /\ [][NextPatch]_vars

\* ------------------------------------------------------ memory after rewind

\* The caller resolves MaxMemoryTurns turns at most.
MaxMemoryTurns == 3

\* One player's turns on the campaign, one after the other.
ResolveMemoryTurn(k) ==
    /\ trace[k].phase_a < MaxMemoryTurns
    /\ BeginWith(k, CampaignIds, {ActorOrder[1]}, DefaultFlags, {"none"})

\* The caller that has rewound the campaign filters the hits of a memory
\* search between two turns: op keeps the target and the count of the rewind
\* beside the hits given and returned.
FilterAfterRewind(campaign_id, hits) ==
    /\ \A k \in Caller : pc[k] = "idle"
    /\ rewind.pc = "idle"
    /\ op.name = "rewind_to_turn"
    /\ op.status = "ok"
    /\ op.campaign_id = campaign_id
    /\ op' = [op EXCEPT
                !.name = "filter_memory_hits_by_visibility",
                !.given_hits = hits,
                !.hits = filter_memory_hits_by_visibility(campaigns, campaign_id, hits)]
    /\ UNCHANGED <<now, db, config, rewind, emulator, pc, input, attempt, context,
                   llm_output, phase_c, result, trace>>

NextMemory ==
    \/ \E k \in Caller : ResolveMemoryTurn(k)
    \/ \E k \in Caller : PhaseA(k)
    \/ \E k \in Caller : CompleteTurn(k)
    \/ \E k \in Caller : PhaseCRead(k)
    \/ \E k \in Caller : PhaseCWrite(k)
    \/ \E k \in Caller : ReleaseClaimBestEffort(k)
    \/ \E k \in Caller : ResolveTurnReturn(k)
    \/ \E c \in DOMAIN campaigns, t \in TargetTurnIds : RewindRead(c, t)
    \/ RewindWrite
    \/ \E c \in DOMAIN campaigns, hits \in HitLists : FilterAfterRewind(c, hits)

SpecMemory == InitDefault /\ [][NextMemory]_vars

\* ------------------------------------------------------- in-memory claims

\* A caller claims a pair itself, as the tests do.
BeginTurn(campaign_id, actor_id) ==
    LET begun == begin_turn(_inflight_turns, campaigns, campaign_id, actor_id)
    IN  /\ op.calls < MaxOps
        /\ _inflight_turns' = begun.claimed
        /\ Returned("begin_turn", campaign_id, 0,
                    [args |-> <<actor_id>>, value |-> <<begun.cid, begun.error_text>>])
        /\ UNCHANGED <<now, db, config, rewind, _pending_timers, pre_inventory_rich,
                       tasks, emits, loaded_player, pc, input, attempt, context,
                       llm_output, phase_c, result, trace>>

\* A caller ends the turn of a pair.
EndTurn(campaign_id, actor_id) ==
    /\ op.calls < MaxOps
    /\ _inflight_turns' = end_turn(_inflight_turns, campaign_id, actor_id)
    /\ Returned("end_turn", campaign_id, 0, [args |-> <<actor_id>>])
    /\ UNCHANGED <<now, db, config, rewind, _pending_timers, pre_inventory_rich,
                   tasks, emits, loaded_player, pc, input, attempt, context,
                   llm_output, phase_c, result, trace>>

\* The campaigns a caller names: that of the store and one it does not hold.
ClaimCampaignIds == CampaignIds \cup OtherCampaignIds

\* The actors that claim: both.
ClaimActorIds == {ActorOrder[i] : i \in DOMAIN ActorOrder}

\* play_action is called with ids and without a session once by each call,
\* by either actor, in character.
PlayClaimedAction(k) ==
    /\ trace[k].phase_a = 0
    /\ \A i, j \in DOMAIN CallOrder :
          (i < j /\ CallOrder[j] = k) => pc[CallOrder[i]] # "idle"
    /\ \E c \in ClaimCampaignIds, a \in ClaimActorIds :
          PlayActionBegin(k, c, a, None, <<TRUE, TRUE>>)

\* The port answers with the output of the tests that changes nothing else.
CompleteClaimedTurn(k) == CompleteTurnWith(k, {RoadOutput})

NextClaim ==
    \/ \E k \in Calls : PlayClaimedAction(k)
    \/ \E k \in Calls : PhaseA(k)
    \/ \E k \in Calls : CompleteClaimedTurn(k)
    \/ \E k \in Calls : PhaseCRead(k)
    \/ \E k \in Calls : PhaseCWrite(k)
    \/ \E k \in Calls : ReleaseClaimBestEffort(k)
    \/ \E k \in Calls : PlayActionReturn(k)
    \/ \E c \in ClaimCampaignIds, a \in ClaimActorIds : BeginTurn(c, a)
    \/ \E c \in ClaimCampaignIds, a \in ClaimActorIds : EndTurn(c, a)

SpecClaim == Init /\ [][NextClaim]_vars

\* ---------------------------------------------------------------- level up

\* ZorkEmulator.XP_BASE, XP_PER_LEVEL
XP_BASE == 100

XP_PER_LEVEL == 50

\* ZorkEmulator.xp_needed_for_level
xp_needed_for_level(level) == XP_BASE + Max(level - 1, 0) * XP_PER_LEVEL

\* ZorkEmulator.level_up: the xp and the level of the object it is given
\* decide, and the row read in a session of its own is written.
level_up(table, obj) ==
    LET key    == Key(obj.campaign_id, obj.actor_id)
        needed == xp_needed_for_level(obj.level)
    IN  IF obj.xp < needed THEN [ok |-> FALSE, table |-> table]
        ELSE [ok    |-> TRUE,
              table |-> [table EXCEPT ![key].xp = @ - needed,
                                      ![key].level = @ + 1]]

\* The outputs that award xp: what the first level costs, and as much below
\* zero.
LevelOutputs ==
    {[RoadOutput EXCEPT !.xp_awarded = XP_BASE],
     [RoadOutput EXCEPT !.xp_awarded = 0 - XP_BASE]}

CompleteLevelTurn(k) == CompleteTurnWith(k, LevelOutputs)

\* One player's turns on the campaign, one after the other, while no rewind
\* runs.
ResolveLevelTurn(k) ==
    /\ rewind.pc = "idle"
    /\ trace[k].phase_a < MaxTurns
    /\ BeginWith(k, CampaignIds, {ActorOrder[1]}, DefaultFlags, {"none"})

\* A caller loads the player between two turns: get_or_create_player gives
\* it the row as it is (the column defaults where it has made the row),
\* detached from its session.
LoadPlayer(k, campaign_id, actor_id) ==
    LET key == Key(campaign_id, actor_id)
    IN  /\ pc[k] = "idle"
        /\ rewind.pc = "idle"
        /\ players' = get_or_create_player(players, campaign_id, actor_id)
        /\ loaded_player' = Some(players'[key])
        /\ UNCHANGED <<now, campaigns, inflight, turns, snapshots, timers, outbox,
                       config, op, rewind, _pending_timers, pre_inventory_rich,
                       tasks, emits, _inflight_turns, pc, input, attempt, context,
                       llm_output, phase_c, result, trace>>

\* The caller calls level_up with the object it holds.
LevelUp(k) ==
    LET obj == TheValue(loaded_player)
        r   == level_up(players, obj)
    IN  /\ pc[k] = "idle"
        /\ rewind.pc = "idle"
        /\ loaded_player # None
        /\ op.calls < MaxOps
        /\ players' = r.table
        /\ Returned("level_up", obj.campaign_id, 0, [ret |-> r.ok])
        /\ UNCHANGED <<now, campaigns, inflight, turns, snapshots, timers, outbox,
                       config, rewind, emulator, pc, input, attempt, context,
                       llm_output, phase_c, result, trace>>

\* The caller rewinds between two turns.
RewindBetweenTurns(k, campaign_id, target_turn_id) ==
    /\ pc[k] = "idle"
    /\ RewindRead(campaign_id, target_turn_id)

NextLevel ==
    \/ \E k \in Caller : ResolveLevelTurn(k)
    \/ \E k \in Caller : PhaseA(k)
    \/ \E k \in Caller : CompleteLevelTurn(k)
    \/ \E k \in Caller : PhaseCRead(k)
    \/ \E k \in Caller : PhaseCWrite(k)
    \/ \E k \in Caller : ResolveTurnReturn(k)
    \/ \E k \in Caller, c \in CampaignIds : LoadPlayer(k, c, ActorOrder[1])
    \/ \E k \in Caller : LevelUp(k)
    \/ \E k \in Caller, c \in CampaignIds, t \in TargetTurnIds : RewindBetweenTurns(k, c, t)
    \/ RewindWrite

SpecLevel == InitDefault /\ [][NextLevel]_vars

\* ------------------------------------------------------------ fired timers

\* ZorkEmulator.register_timer_message, called without a channel: the
\* campaign's most recently created active timer row is bound to the message
\* and the campaign's pending entry, if there is one, notes the message.
register_timer_message(table, pending_timers, campaign_id, message_id) ==
    LET active == {i \in DOMAIN table : /\ table[i].campaign_id = campaign_id
                                        /\ table[i].status \in ACTIVE}
        timer  == CHOOSE i \in active : \A j \in active : j <= i
    IN  IF active = {}
        THEN [ok |-> FALSE, timer |-> 0, table |-> table, pending_timers |-> pending_timers]
        ELSE [ok    |-> TRUE,
              timer |-> timer,
              table |-> [table EXCEPT ![timer].status = "scheduled_bound",
                                      ![timer].external_message_id = Some(message_id)],
              pending_timers |->
                  IF campaign_id \in DOMAIN pending_timers
                  THEN [pending_timers EXCEPT ![campaign_id].message_id = Some(message_id)]
                  ELSE pending_timers]

\* The host registers the message it has posted for the campaign's timer;
\* op.target is the row that was bound.
RegisterTimerMessage(campaign_id, message_id) ==
    LET r == register_timer_message(timers, _pending_timers, campaign_id, message_id)
    IN  /\ op.calls < MaxOps
        /\ timers' = r.table
        /\ _pending_timers' = r.pending_timers
        /\ Returned("register_timer_message", campaign_id, r.timer,
                    [ret |-> r.ok, args |-> <<message_id>>])
        /\ UNCHANGED <<now, campaigns, players, inflight, turns, snapshots, outbox,
                       config, rewind, pre_inventory_rich, tasks, emits,
                       _inflight_turns, loaded_player, pc, input, attempt, context,
                       llm_output, phase_c, result, trace>>

\* The player plays from its session, MaxHostTurns actions at most.
PlayFiredAction(k) ==
    /\ trace[k].phase_a < MaxHostTurns
    /\ \E c \in CampaignIds, session_id \in SessionIds :
          PlayActionBegin(k, c, ActorOrder[1], session_id, <<TRUE, TRUE>>)

\* The port answers with the output that sets a timer.
CompleteFiredTurn(k) == CompleteTurnWith(k, {CollapseOutput})

NextFired ==
    \/ Tick
    \/ \E k \in Caller : PlayFiredAction(k)
    \/ \E k \in Calls : PhaseA(k)
    \/ \E k \in Calls : CompleteFiredTurn(k)
    \/ \E k \in Calls : PhaseCRead(k)
    \/ \E k \in Calls : PhaseCWrite(k)
    \/ \E k \in Calls : ReleaseClaimBestEffort(k)
    \/ \E k \in Caller : PlayActionReturn(k)
    \/ \E k \in Caller : PlayActionAgain(k)
    \/ \E i \in DOMAIN tasks, k \in TimerCaller : TimerTask(i, k)
    \/ \E k \in TimerCaller : TimedEventReturn(k)
    \/ \E c \in CampaignIds, message_id \in MessageIds : RegisterTimerMessage(c, message_id)

SpecFired == InitDefault /\ [][NextFired]_vars

\* ------------------------------------------------------ give item transfer

\* The actors of the emulator's tests: "1" plays, "2" has a player row or
\* none, "3" has none.
SourceActorId == "1"

TargetActorId == "2"

Entry(name, origin) == [name |-> name, origin |-> origin]

\* The inventory the source had before its turn, as _get_inventory_rich
\* gave it, and those it and the target may have after the turn.
PreInventories ==
    {<<>>, <<Entry("Rusty Key", "Found in locker")>>, <<Entry("lamp", "")>>,
     <<Entry("Rusty Key", "Found in locker"), Entry("lamp", "")>>}

SourceInventories ==
    PreInventories \cup {<<Entry("rusty key", "")>>}

TargetInventories ==
    {<<>>, <<Entry("lamp", "")>>, <<Entry("rusty key", "Found in locker")>>}

\* The give_item of the turn's result: none, or an item for an actor named
\* by its id (the target, the source, an actor without a player row) or by
\* a mention (of the target, or one that holds no number).
GiveItems ==
    {None} \cup
    {Some([item |-> item, to_actor_id |-> to[1], to_discord_mention |-> to[2]]) :
        item \in ItemNames,
        to \in {<<Some("2"), None>>, <<Some("1"), None>>, <<Some("3"), None>>,
                <<None, Some("<@2>")>>, <<None, Some("<@actor-2>")>>}}

\* The actions of the tests: one that names a give verb and the key, one
\* that names neither.
TossAction == <<"I", "toss", "the", "Rusty Key", "to", "<@2>">>

DropAction == <<"I", "drop", "the", "lamp">>

ActionTexts == {TossAction, DropAction}

\* The narrations of the tests: the target catches what was tossed, takes
\* it (no give verb), or refuses it; nobody is mentioned; the source alone
\* is mentioned.
CatchNarration ==
    <<"<@2>", "catches", "the", "Rusty Key", "you", "toss", "across", "the", "room.">>

TakeNarration == <<"<@2>", "nods", "and", "pockets", "it.">>

RefusalNarration ==
    <<"<@2>", "pushes it back", "and", "refuses", "to", "take", "the", "Rusty Key.">>

NoMentionNarration == <<"You", "toss", "it", "away.">>

SelfMentionNarration == <<"<@1>", "you", "hand", "it", "over.">>

NarrationTexts ==
    {CatchNarration, TakeNarration, RefusalNarration, NoMentionNarration,
     SelfMentionNarration}

\* The players table after the turn: the source's row, and the target's row
\* or none.
TransferTables ==
    LET Row(actor_id, entries) ==
            [player_create("campaign-1", actor_id) EXCEPT
                !.state_json = dump_json(("inventory" :> InventoryJson(entries)))]
    IN  {(Key("campaign-1", SourceActorId) :> Row(SourceActorId, source)) :
            source \in SourceInventories}
        \cup
        {(Key("campaign-1", SourceActorId) :> Row(SourceActorId, source))
         @@ (Key("campaign-1", TargetActorId) :> Row(TargetActorId, target)) :
            source \in SourceInventories, target \in TargetInventories}

\* _apply_give_item_transfer is about to be called: op.args holds the
\* players table, the action, the narration, the give_item and the
\* inventory before the turn.
InitTransfer ==
    /\ InitStore(CampaignIds, {max_conflict_retries_default}, {actor_resolver})
    /\ \E table \in TransferTables, action_text \in ActionTexts,
          narration_text \in NarrationTexts, give_item \in GiveItems,
          pre_inventory \in PreInventories :
          op = [NoOp EXCEPT !.args = <<table, action_text, narration_text,
                                       give_item, pre_inventory>>]

\* The call: op.value holds the players table it leaves.
ApplyGiveItemTransfer ==
    /\ op.name = "none"
    /\ op' = [op EXCEPT
                !.name = "_apply_give_item_transfer",
                !.value = <<_apply_give_item_transfer(
                              op.args[1], "campaign-1", SourceActorId, op.args[2],
                              op.args[3], op.args[4], op.args[5])>>]
    /\ UNCHANGED <<now, db, config, rewind, emulator, pc, input, attempt, context,
                   llm_output, phase_c, result, trace>>

NextTransfer == ApplyGiveItemTransfer

SpecTransfer == InitTransfer /\ [][NextTransfer]_vars

\* ---------------------------------------------------------------- calendar

\* The entries a calendar keeps, and the characters a description keeps.
MaxCalendarEvents == 10

MaxDescriptionChars == 200

\* str.strip() on the names the model uses.
strip(text) ==
    IF text = " eclipse " THEN "eclipse"
    ELSE IF text = " harvest " THEN "harvest"
    ELSE text

\* A JSON value that is a number, a boolean, a string that holds no number,
\* or absent.
JsonInt(n) == [kind |-> "int", int |-> n]

JsonBool == [kind |-> "bool", int |-> 1]

JsonText == [kind |-> "str", int |-> 0]

JsonAbsent == [kind |-> "none", int |-> 0]

\* int(value), or the default where int() raises.
IntOr(value, default) == IF value.kind \in {"int", "bool"} THEN value.int ELSE default

\* A text of n characters, and text[:n].
Chars(n) == [i \in 1..n |-> i]

Truncate(text, n) == SubSeq(text, 1, Min(Len(text), n))

\* DefaultEngine._calendar_resolve_fire_day
_calendar_resolve_fire_day(current_day, current_hour, time_remaining, time_unit) ==
    LET day       == Max(1, current_day)
        hour      == Min(23, Max(0, current_hour))
        remaining == IntOr(time_remaining, 1)
        unit      == lower(strip(IF time_unit = "" THEN "days" ELSE time_unit))
        fire_day  == IF unit \in {"hour", "hours"}
                     THEN day + ((hour + remaining) \div 24)
                     ELSE day + remaining
    IN  Max(1, fire_day)

\* The fire_day of an event: its own when it is a number, else resolved from
\* time_remaining and time_unit.
ResolvedFireDay(event, current_day, current_hour) ==
    IF event.fire_day.kind = "int" THEN Max(1, event.fire_day.int)
    ELSE _calendar_resolve_fire_day(current_day, current_hour,
                                    event.time_remaining, event.time_unit)

\* DefaultEngine._calendar_normalize_event: the stored form of an event, or
\* none for an event without a name.
_calendar_normalize_event(event, current_day, current_hour) ==
    IF strip(event.name) = "" THEN None
    ELSE Some([name         |-> strip(event.name),
               fire_day     |-> ResolvedFireDay(event, current_day, current_hour),
               description  |-> Truncate(event.description, MaxDescriptionChars),
               created_day  |-> event.created_day,
               created_hour |-> event.created_hour])

\* The entries of a list that are there, in order.
Present(options) ==
    LET kept == Subsequence(options, {i \in DOMAIN options : options[i] # None})
    IN  [i \in DOMAIN kept |-> TheValue(kept[i])]

\* The name an event is known by: str(name).strip().lower().
EventKey(name) == lower(strip(name))

\* The calendar without the events a later one shares its name with.
Deduped(calendar) ==
    Subsequence(calendar,
                {i \in DOMAIN calendar :
                    ~\E j \in DOMAIN calendar :
                        j > i /\ EventKey(calendar[j].name) = EventKey(calendar[i].name)})

\* _apply_calendar_update that keeps events of the same name.
_apply_calendar_update_NoDedupe(calendar_raw, game_time, calendar_update) ==
    IF calendar_update = None THEN calendar_raw
    ELSE
    LET update   == TheValue(calendar_update)
        day_int  == game_time.day
        hour_int == game_time.hour
        calendar == Present([i \in DOMAIN calendar_raw |->
                        _calendar_normalize_event(calendar_raw[i], day_int, hour_int)])
        remove_set == IF update.remove = None THEN {}
                      ELSE LET to_remove == TheValue(update.remove)
                           IN  {EventKey(to_remove[i]) :
                                   i \in {j \in DOMAIN to_remove : to_remove[j] # ""}}
        kept     == Subsequence(calendar, {i \in DOMAIN calendar :
                                    EventKey(calendar[i].name) \notin remove_set})
        to_add   == IF update.add = None THEN <<>> ELSE TheValue(update.add)
        added    == Present([i \in DOMAIN to_add |->
                        IF strip(to_add[i].name) = "" THEN None
                        ELSE Some([name         |-> strip(to_add[i].name),
                                   fire_day     |-> ResolvedFireDay(to_add[i], day_int, hour_int),
                                   created_day  |-> JsonInt(game_time.day),
                                   created_hour |-> JsonInt(game_time.hour),
                                   description  |-> Truncate(to_add[i].description,
                                                             MaxDescriptionChars)])])
        deduped  == kept \o added
    IN  IF Len(deduped) > MaxCalendarEvents
        THEN SubSeq(deduped, Len(deduped) - MaxCalendarEvents + 1, Len(deduped))
        ELSE deduped

\* DefaultEngine._apply_calendar_update: the calendar it stores in the
\* campaign state.  An update that is no dict changes nothing; the stored
\* events are normalised, those the update removes are dropped, those it
\* adds are appended, and with an add list the last event of each name is
\* kept; the last MaxCalendarEvents events remain.
_apply_calendar_update(calendar_raw, game_time, calendar_update) ==
    IF calendar_update = None THEN calendar_raw
    ELSE
    LET update   == TheValue(calendar_update)
        day_int  == game_time.day
        hour_int == game_time.hour
        calendar == Present([i \in DOMAIN calendar_raw |->
                        _calendar_normalize_event(calendar_raw[i], day_int, hour_int)])
        remove_set == IF update.remove = None THEN {}
                      ELSE LET to_remove == TheValue(update.remove)
                           IN  {EventKey(to_remove[i]) :
                                   i \in {j \in DOMAIN to_remove : to_remove[j] # ""}}
        kept     == Subsequence(calendar, {i \in DOMAIN calendar :
                                    EventKey(calendar[i].name) \notin remove_set})
        to_add   == IF update.add = None THEN <<>> ELSE TheValue(update.add)
        added    == Present([i \in DOMAIN to_add |->
                        IF strip(to_add[i].name) = "" THEN None
                        ELSE Some([name         |-> strip(to_add[i].name),
                                   fire_day     |-> ResolvedFireDay(to_add[i], day_int, hour_int),
                                   created_day  |-> JsonInt(game_time.day),
                                   created_hour |-> JsonInt(game_time.hour),
                                   description  |-> Truncate(to_add[i].description,
                                                             MaxDescriptionChars)])])
        deduped  == IF update.add = None THEN kept \o added
                    ELSE Deduped(kept \o added)
    IN  IF Len(deduped) > MaxCalendarEvents
        THEN SubSeq(deduped, Len(deduped) - MaxCalendarEvents + 1, Len(deduped))
        ELSE deduped

\* An event as an update's add list gives it.
AddEntry(name, fire_day, time_remaining, time_unit, chars) ==
    [name |-> name, fire_day |-> fire_day, time_remaining |-> time_remaining,
     time_unit |-> time_unit, description |-> Chars(chars),
     created_day |-> JsonAbsent, created_hour |-> JsonAbsent]

\* An event as the campaign state stores it, created on day 1 at 8.
StoredEvent(name, fire_day, chars) ==
    [name |-> name, fire_day |-> JsonInt(fire_day), time_remaining |-> JsonAbsent,
     time_unit |-> "", description |-> Chars(chars),
     created_day |-> JsonInt(1), created_hour |-> JsonInt(8)]

\* Events to add: named as a stored one but for case and blanks, with a
\* fire_day below 1, without a name, with a description too long, due in
\* hours or in days, with a time_remaining that is no number.
AddEntries ==
    {AddEntry("Eclipse", JsonInt(5), JsonAbsent, "", 12),
     AddEntry(" eclipse ", JsonAbsent, JsonInt(2), "days", MaxDescriptionChars + 1),
     AddEntry("Harvest", JsonInt(0), JsonAbsent, "", 0),
     AddEntry("", JsonInt(4), JsonAbsent, "", 12),
     AddEntry("Market", JsonAbsent, JsonInt(0 - 30), "hours", 12),
     AddEntry("ECLIPSE", JsonBool, JsonText, "", 0)}

MaxAdds == 2

AddLists == UNION {[1..n -> AddEntries] : n \in 0..MaxAdds}

RemoveLists == {<<>>, <<"ECLIPSE">>, <<" harvest ", "event-3", "">>}

\* event-1 .. event-n, each due the day after the one before.
Events(n) == [i \in 1..n |-> StoredEvent("event-" \o ToString(i), i, 12)]

\* The calendars a campaign state holds before the update; the Eclipse of
\* day 1 is overdue on day 3.
Calendars ==
    {<<>>,
     <<StoredEvent("Eclipse", 1, MaxDescriptionChars)>>,
     <<StoredEvent("Harvest", 2, 12), StoredEvent("Eclipse", 1, 0)>>,
     Events(MaxCalendarEvents - 1),
     Events(MaxCalendarEvents),
     <<StoredEvent("Eclipse", 1, 12)>> \o Events(MaxCalendarEvents - 1)}

GameTimes == {[day |-> 3, hour |-> 8], [day |-> 1, hour |-> 23]}

\* A calendar_update: no dict, or a dict with or without an add list and a
\* remove list.
CalendarUpdates ==
    {None} \cup
    {Some([add |-> add, remove |-> remove]) :
        add \in {None} \cup {Some(list) : list \in AddLists},
        remove \in {None} \cup {Some(list) : list \in RemoveLists}}

\* _apply_calendar_update is about to be called: op.args holds the stored
\* calendar, the game time and the update.
InitCalendar ==
    /\ InitStore(CampaignIds, {max_conflict_retries_default}, {actor_resolver})
    /\ \E calendar \in Calendars, game_time \in GameTimes,
          calendar_update \in CalendarUpdates :
          op = [NoOp EXCEPT !.args = <<calendar, game_time, calendar_update>>]

\* The call: op.value holds the calendar it stores.
ApplyCalendarUpdate ==
    /\ op.name = "none"
    /\ op' = [op EXCEPT
                !.name = "_apply_calendar_update",
                !.value = <<_apply_calendar_update(op.args[1], op.args[2], op.args[3])>>]
    /\ UNCHANGED <<now, db, config, rewind, emulator, pc, input, attempt, context,
                   llm_output, phase_c, result, trace>>

NextCalendar == ApplyCalendarUpdate

SpecCalendar == InitCalendar /\ [][NextCalendar]_vars

\* ---------------------------------------------------------- inventory delta

\* The JSON text of a list of item names, and the names
\* _normalize_inventory_items reads from it.
NAME_LISTS == ("[\"lamp\"]" :> <<"lamp">>) @@ ("[\"rusty key\"]" :> <<"rusty key">>)

\* The outputs of a turn that sets the inventory, and of turns that name
\* items to add to it, to remove from it, or both.
PickUpOutput ==
    [RoadOutput EXCEPT !.player_state_update =
        ("inventory" :> InventoryJson(<<Entry("Rusty Key", "Found in locker")>>))]

AddOutput ==
    [RoadOutput EXCEPT !.player_state_update = ("inventory_add" :> "[\"lamp\"]")]

RemoveOutput ==
    [RoadOutput EXCEPT !.player_state_update = ("inventory_remove" :> "[\"rusty key\"]")]

SwapOutput ==
    [RoadOutput EXCEPT !.player_state_update =
        ("inventory_add" :> "[\"lamp\"]") @@ ("inventory_remove" :> "[\"rusty key\"]")]

\* The outputs that add the key under a name of another case, and that
\* remove the lamp.
AddHeldOutput ==
    [RoadOutput EXCEPT !.player_state_update = ("inventory_add" :> "[\"rusty key\"]")]

RemoveLampOutput ==
    [RoadOutput EXCEPT !.player_state_update = ("inventory_remove" :> "[\"lamp\"]")]

DeltaOutputs ==
    {PickUpOutput, AddOutput, RemoveOutput, SwapOutput, AddHeldOutput, RemoveLampOutput}

CompleteDeltaTurn(k) == CompleteTurnWith(k, DeltaOutputs)

NextDelta ==
    \/ \E k \in Caller : ResolveLevelTurn(k)
    \/ \E k \in Caller : PhaseA(k)
    \/ \E k \in Caller : CompleteDeltaTurn(k)
    \/ \E k \in Caller : PhaseCRead(k)
    \/ \E k \in Caller : PhaseCWrite(k)
    \/ \E k \in Caller : ResolveTurnReturn(k)

SpecDelta == InitDefault /\ [][NextDelta]_vars

\* ------------------------------------------------------------------ claims

\* The campaign's row_version is no longer the one Phase A observed.
RowVersionChanged(k) ==
    campaigns[input[k].campaign_id].row_version # context[k].start_row_version

\* Call k takes a step.
Steps(k) == pc'[k] # pc[k]

\* resolve_turn of call k returns ok in this step.
ReturnsOk(k) == result[k].status # "ok" /\ result'[k].status = "ok"

\* C1: when the campaign's row_version has changed since Phase A and no
\* retry remains, Phase C raises StaleClaim without adding a turn, snapshot,
\* timer or outbox row (nor any other write), and resolve_turn then returns
\* conflict, whatever the LLM output carries.
C1_ConflictRollsBackAllWrites ==
    [][\A k \in Calls :
        /\ ( /\ pc[k] \in {"phase_c", "phase_c_write"}
             /\ RowVersionChanged(k)
             /\ attempt[k] = max_conflict_retries
             /\ Steps(k) )
           => /\ pc'[k] = "release"
              /\ UNCHANGED <<campaigns, players, turns, snapshots, timers, outbox>>
        /\ ( /\ pc[k] = "release"
             /\ attempt[k] = max_conflict_retries
             /\ Steps(k) )
           => /\ pc'[k] = "done"
              /\ result'[k].status = "conflict"
              /\ UNCHANGED <<campaigns, players, turns, snapshots, timers, outbox>>
      ]_vars

\* A call returned conflict for a changed row_version although its LLM
\* output carried a timer_instruction and a scene_image_prompt and timers
\* were allowed; the store holds no turn, snapshot, timer or outbox row.
C1_Witness ==
    \E k \in Calls :
        /\ result[k].status = "conflict"
        /\ trace[k].stale_reason \in {"row_version_changed", "cas_failed"}
        /\ llm_output[k].timer_instruction # None
        /\ llm_output[k].scene_image_prompt # None
        /\ input[k].allow_timer_instruction
        /\ turns = <<>> /\ snapshots = {} /\ timers = <<>> /\ outbox = {}

\* C2: the step in which resolve_turn commits and returns ok leaves the
\* campaign's row_version at the start_row_version of that attempt plus one.
C2_OkBumpsRowVersionByOne ==
    [][\A k \in Calls :
        ReturnsOk(k) =>
            campaigns'[input[k].campaign_id].row_version
                = context[k].start_row_version + 1
      ]_vars

\* A call committed in a retry, over a row_version that other commits had
\* raised before.
C2_Witness ==
    \E k \in Calls :
        /\ result[k].status = "ok"
        /\ attempt[k] = 1
        /\ context[k].start_row_version > 1
        /\ campaigns[input[k].campaign_id].row_version
                = context[k].start_row_version + 1

\* C3: the step in which resolve_turn returns ok appends the player turn
\* (only if record_player_turn) and then one narrator turn, and inserts one
\* snapshot whose turn_id is that narrator turn's id; no other step of
\* resolve_turn changes the turns or the snapshots.
C3_OkAddsOneNarratorTurnAndSnapshot ==
    [][/\ \A k \in Calls :
            ReturnsOk(k) =>
                LET n == Len(turns)
                    m == Len(turns')
                    c == input[k].campaign_id
                IN  /\ m = n + (IF input[k].record_player_turn THEN 2 ELSE 1)
                    /\ SubSeq(turns', 1, n) = turns
                    /\ turns'[m].kind = "narrator"
                    /\ turns'[m].campaign_id = c
                    /\ input[k].record_player_turn =>
                            /\ turns'[n + 1].kind = "player"
                            /\ turns'[n + 1].campaign_id = c
                    /\ \A i \in 1..n : turns[i].id # turns'[m].id
                    /\ \E snap \in snapshots' :
                            /\ snap \notin snapshots
                            /\ snapshots' = snapshots \cup {snap}
                            /\ snap.turn_id = turns'[m].id
                            /\ snap.campaign_id = c
       /\ (turns' # turns \/ snapshots' # snapshots) =>
            \E k \in Calls : ReturnsOk(k)
      ]_vars

\* One call committed with a player turn and another without: three turns,
\* two of them narrator turns with a snapshot each.
C3_Witness ==
    /\ \E k \in Calls : result[k].status = "ok" /\ input[k].record_player_turn
    /\ \E k \in Calls : result[k].status = "ok" /\ ~input[k].record_player_turn
    /\ Len(turns) = 3
    /\ Cardinality(snapshots) = 2
    /\ \A snap \in snapshots :
            \E i \in DOMAIN turns :
                turns[i].id = snap.turn_id /\ turns[i].kind = "narrator"

\* The in-flight row of call k's pair is missing, bears another token, or
\* has expires_at < now.
ClaimLost(k) ==
    LET key == Key(input[k].campaign_id, input[k].actor_id)
    IN  \/ key \notin DOMAIN inflight
        \/ inflight[key].claim_token # ClaimToken(k)
        \/ inflight[key].expires_at < now

\* C4: when Phase C starts with the claim lost, it raises StaleClaim
\* (claim_invalid) and commits no change to the campaign, the players, the
\* turns, the snapshots, the timers or the outbox.
C4_LostClaimDiscardsOutput ==
    [][\A k \in Calls :
        (pc[k] = "phase_c" /\ ClaimLost(k) /\ Steps(k))
            => /\ pc'[k] = "release"
               /\ trace'[k].stale_reason = "claim_invalid"
               /\ UNCHANGED <<campaigns, players, turns, snapshots, timers, outbox>>
      ]_vars

\* Phase C of a call has been refused for claim_invalid while another
\* call's unexpired token sits in its pair's row (the lease was stolen).
C4_Witness ==
    \E k \in Calls :
        LET key == Key(input[k].campaign_id, input[k].actor_id)
        IN  /\ pc[k] = "release"
            /\ trace[k].stale_reason = "claim_invalid"
            /\ key \in DOMAIN inflight
            /\ inflight[key].claim_token # ClaimToken(k)
            /\ inflight[key].expires_at >= now

\* Calls k and j, of different actors on one campaign, had both completed
\* Phase A before either committed, and both have returned.
Overlapped(k, j) ==
    /\ k # j
    /\ j \in trace[k].raced
    /\ pc[k] = "done" /\ pc[j] = "done"

\* C5 as stated: of two overlapping calls of different actors exactly one
\* commits and the other returns conflict, whatever max_conflict_retries is
\* (here with no hook configured and no time passing, so that no lease
\* expires).
C5_Original ==
    \A k, j \in Calls :
        ( /\ Overlapped(k, j)
          /\ before_phase_c[k] = "none" /\ before_phase_c[j] = "none"
          /\ now = 0 )
            => \/ result[k].status = "ok" /\ result[j].status = "conflict"
               \/ result[k].status = "conflict" /\ result[j].status = "ok"

\* C5, amended: no two attempts that started from the same row_version of a
\* campaign both commit; with max_conflict_retries = 0 the two overlapping
\* calls never both commit and the one that does not returns conflict, and
\* exactly one commits when nothing but the two calls touches the campaign
\* and neither lease lapses.
C5_AtMostOneCommitPerRowVersion ==
    /\ \A k, j \in Calls :
            ( /\ k # j
              /\ result[k].status = "ok" /\ result[j].status = "ok"
              /\ input[k].campaign_id = input[j].campaign_id )
                => context[k].start_row_version # context[j].start_row_version
    /\ \A k, j \in Calls :
            (Overlapped(k, j) /\ max_conflict_retries = 0)
                => /\ {result[k].status, result[j].status} \subseteq {"ok", "conflict"}
                   /\ ~(result[k].status = "ok" /\ result[j].status = "ok")
                   /\ ( /\ before_phase_c[k] = "none" /\ before_phase_c[j] = "none"
                        /\ trace[k].stale_reason # "claim_invalid"
                        /\ trace[j].stale_reason # "claim_invalid" )
                        => "ok" \in {result[k].status, result[j].status}

\* With no retry, two overlapping calls of different actors have returned:
\* one committed, the other got conflict from the row-version check.
C5_Witness ==
    \E k, j \in Calls :
        /\ Overlapped(k, j)
        /\ max_conflict_retries = 0
        /\ input[k].actor_id # input[j].actor_id
        /\ {result[k].status, result[j].status} = {"ok", "conflict"}
        /\ {trace[k].stale_reason, trace[j].stale_reason}
                \cap {"row_version_changed", "cas_failed"} # {}
        /\ Len(turns) \in {1, 2}

\* The lease of call k's current attempt was stolen between its Phase A and
\* the start of its Phase C.
Stolen(k) == attempt[k] \in trace[k].stolen

\* C6 as stated: a call whose lease was stolen during its LLM call returns
\* conflict.
C6_Original ==
    \A k \in Calls :
        (pc[k] = "done" /\ trace[k].stolen # {}) => result[k].status = "conflict"

\* C6, amended: Phase C of an attempt whose lease was stolen fails the token
\* validation (claim_invalid), before the CAS, and writes nothing; the call
\* returns conflict when no retry remains, and otherwise starts a new
\* attempt.
C6_StolenLeaseFailsValidation ==
    [][\A k \in Calls :
        /\ (pc[k] = "phase_c" /\ Stolen(k) /\ Steps(k))
            => /\ pc'[k] = "release"
               /\ trace'[k].stale_reason = "claim_invalid"
               /\ UNCHANGED <<campaigns, players, turns, snapshots, timers, outbox>>
        /\ (pc[k] = "release" /\ Stolen(k) /\ Steps(k))
            => IF attempt[k] = max_conflict_retries
               THEN pc'[k] = "done" /\ result'[k].status = "conflict"
               ELSE pc'[k] = "phase_a" /\ attempt'[k] = attempt[k] + 1
                    /\ result'[k].status = "none"
      ]_vars

\* A call whose lease was stolen has returned conflict while the stealer
\* holds the pair's row.
C6_Witness ==
    \E k \in Calls :
        LET key == Key(input[k].campaign_id, input[k].actor_id)
        IN  /\ pc[k] = "done"
            /\ Stolen(k)
            /\ result[k].status = "conflict"
            /\ trace[k].stale_reason = "claim_invalid"
            /\ key \in DOMAIN inflight
            /\ \E j \in Calls \ {k} : inflight[key].claim_token = ClaimToken(j)

\* C7: Phase A of a call whose pair has an in-flight row with
\* expires_at >= now ends the call with busy: no further attempt, no LLM
\* call, no write, and the holder's row as it was.
C7_BusyWhileLeaseUnexpired ==
    [][\A k \in Calls :
        LET key == Key(input[k].campaign_id, input[k].actor_id)
        IN  ( /\ pc[k] = "phase_a"
              /\ key \in DOMAIN inflight
              /\ inflight[key].expires_at >= now
              /\ Steps(k) )
            => /\ pc'[k] = "done"
               /\ result'[k].status = "busy"
               /\ UNCHANGED <<campaigns, players, inflight, turns, snapshots,
                              timers, outbox>>
               /\ trace'[k].llm = trace[k].llm
               /\ attempt[k] = 0 => (trace'[k].phase_a = 1 /\ trace'[k].llm = 0)
      ]_vars

\* A call got busy at the very instant the holder's lease ends
\* (expires_at = now); the holder's token is still in the row.
C7_Witness ==
    \E k \in Calls :
        LET key == Key(input[k].campaign_id, input[k].actor_id)
        IN  /\ result[k].status = "busy"
            /\ trace[k].phase_a = 1 /\ trace[k].llm = 0
            /\ key \in DOMAIN inflight
            /\ inflight[key].expires_at = now
            /\ \E j \in Calls \ {k} :
                    /\ inflight[key].claim_token = ClaimToken(j)
                    /\ pc[j] \in UncommittedPcs

\* C8: Phase A over an existing in-flight row acquires the slot exactly when
\* the stored expires_at < now, and then the row bears the new token,
\* claimed_at = heartbeat_at = now and the new expires_at; otherwise the row
\* is unchanged and the call is busy.
C8_StealOnlyExpired ==
    [][\A k \in Calls :
        LET key == Key(input[k].campaign_id, input[k].actor_id)
        IN  (pc[k] = "phase_a" /\ key \in DOMAIN inflight /\ Steps(k))
            => IF inflight[key].expires_at < now
               THEN /\ pc'[k] = "llm"
                    /\ inflight'[key] = [claim_token  |-> ClaimToken(k),
                                         claimed_at   |-> now,
                                         heartbeat_at |-> now,
                                         expires_at   |-> now + lease_ttl_seconds]
               ELSE /\ result'[k].status = "busy"
                    /\ inflight' = inflight
      ]_vars

\* A call holds the row of a pair whose earlier holder stalled past its
\* lease: the row was taken over at a time later than the old expires_at.
C8_Witness ==
    \E k, j \in Calls :
        LET key == Key(input[k].campaign_id, input[k].actor_id)
        IN  /\ k # j
            /\ pc[k] = "llm"
            /\ Stolen(j)
            /\ key = Key(input[j].campaign_id, input[j].actor_id)
            /\ key \in DOMAIN inflight
            /\ inflight[key].claim_token = ClaimToken(k)
            /\ inflight[key].claimed_at > lease_ttl_seconds

\* C9: a call all of whose attempts raised StaleClaimError has run
\* max_conflict_retries + 1 attempts, each with Phase A, the LLM call and
\* (where configured) the hook, each under a token of its own, and has
\* returned conflict.
C9_RetriesThenConflict ==
    \A k \in Calls :
        (pc[k] = "done" /\ trace[k].stale = trace[k].phase_a)
            => /\ trace[k].phase_a = max_conflict_retries + 1
               /\ trace[k].llm = max_conflict_retries + 1
               /\ before_phase_c[k] # "none" => trace[k].hook = max_conflict_retries + 1
               /\ Cardinality(trace[k].tokens) = max_conflict_retries + 1
               /\ result[k].status = "conflict"

\* With one retry and a hook that always bumps row_version, a call has
\* returned conflict after two attempts.
C9_Witness ==
    \E k \in Calls :
        /\ pc[k] = "done"
        /\ max_conflict_retries = 1
        /\ trace[k].stale = 2 /\ trace[k].phase_a = 2
        /\ trace[k].llm = 2 /\ trace[k].hook = 2
        /\ Cardinality(trace[k].tokens) = 2
        /\ result[k].status = "conflict"

\* A step changes one of the campaign's summary, state, characters,
\* last_narration or memory_visible_max_turn_id.
CampaignFieldsChange(c) ==
    \/ campaigns'[c].summary # campaigns[c].summary
    \/ campaigns'[c].state_json # campaigns[c].state_json
    \/ campaigns'[c].characters_json # campaigns[c].characters_json
    \/ campaigns'[c].last_narration # campaigns[c].last_narration
    \/ campaigns'[c].memory_visible_max_turn_id # campaigns[c].memory_visible_max_turn_id

\* C10: every step of the engine or the emulator that changes a campaign's
\* summary, state, characters, last_narration or memory_visible_max_turn_id
\* raises its row_version by exactly one, and no step lowers row_version.
C10_CampaignWritesBumpRowVersion ==
    [][\A c \in CampaignIds :
        /\ CampaignFieldsChange(c)
            => campaigns'[c].row_version = campaigns[c].row_version + 1
        /\ campaigns'[c].row_version >= campaigns[c].row_version
      ]_vars

\* The emulator has returned a turn's narration: the campaign holds the
\* decorated narration, which the snapshot of the commit did not have, under
\* the row_version the commit left.
C10_Witness ==
    \E k \in Calls :
        LET c == input[k].campaign_id
        IN  /\ pc[k] = "returned"
            /\ result[k].status = "ok"
            /\ campaigns[c].last_narration # result[k].narration
            /\ campaigns[c].row_version = context[k].start_row_version + 1

\* The active timers of a campaign.
ActiveTimers(table, c) ==
    {i \in DOMAIN table : table[i].campaign_id = c /\ table[i].status \in ACTIVE}

\* C11: in every reachable state each campaign has at most one timer whose
\* status is scheduled_unbound or scheduled_bound, whatever the interleaving
\* of resolve_turn, schedule, attach_message, cancel_active, mark_expired
\* and mark_consumed.
C11_OneActiveTimerPerCampaign ==
    \A c \in DOMAIN campaigns : Cardinality(ActiveTimers(timers, c)) <= 1

\* A campaign holds an active timer beside a cancelled one that a turn
\* replaced, and a direct schedule for it has just been refused.
C11_Witness ==
    \E c \in DOMAIN campaigns :
        /\ Cardinality(ActiveTimers(timers, c)) = 1
        /\ \E i \in DOMAIN timers : /\ timers[i].campaign_id = c
                                    /\ timers[i].status = "cancelled"
        /\ op.name = "schedule"
        /\ op.campaign_id = c
        /\ ~op.ret

\* The status of timer row i changes from s to t in this step.
TimerMoves(i, s, t) ==
    /\ timers[i].status \in s
    /\ timers'[i].status \in t
    /\ timers'[i].status # timers[i].status

\* A call beside resolve_turn returns in this step.
Returns(name) == op'.calls = op.calls + 1 /\ op'.name = name

\* C12: a timer's status changes only from active to scheduled_bound (by
\* attach_message, which also succeeds on a bound timer), from active to
\* cancelled (by cancel_active), from active to expired (by mark_expired)
\* and from expired to consumed (by mark_consumed); attach_message,
\* mark_expired and mark_consumed return true exactly when the timer has
\* the source status and otherwise change nothing, so that a second
\* mark_expired or mark_consumed is a no-op; cancelled and consumed are
\* terminal, and no row is removed.
C12_TimerTransitions ==
    [][/\ Len(timers') >= Len(timers)
       /\ \A i \in DOMAIN timers :
            LET s == timers[i].status
                t == timers'[i].status
            IN  /\ t # s =>
                    \/ s \in ACTIVE /\ t = "scheduled_bound" /\ Returns("attach_message")
                    \/ s \in ACTIVE /\ t = "cancelled"
                       /\ (Returns("cancel_active") \/ \E k \in Calls : ReturnsOk(k))
                    \/ s \in ACTIVE /\ t = "expired" /\ Returns("mark_expired")
                    \/ s = "expired" /\ t = "consumed" /\ Returns("mark_consumed")
                /\ s \in {"cancelled", "consumed"} => timers'[i] = timers[i]
       /\ Returns("attach_message") =>
            /\ op'.ret = (\E i \in DOMAIN timers : /\ timers[i].id = op'.target
                                                   /\ timers[i].status \in ACTIVE)
            /\ op'.ret => \E i \in DOMAIN timers :
                            /\ timers[i].id = op'.target
                            /\ timers'[i].status = "scheduled_bound"
            /\ ~op'.ret => timers' = timers
       /\ Returns("mark_expired") =>
            /\ op'.ret = (\E i \in DOMAIN timers : /\ timers[i].id = op'.target
                                                   /\ timers[i].status \in ACTIVE)
            /\ op'.ret => \E i \in DOMAIN timers :
                            /\ timers[i].id = op'.target
                            /\ timers'[i].status = "expired"
            /\ ~op'.ret => timers' = timers
       /\ Returns("mark_consumed") =>
            /\ op'.ret = (\E i \in DOMAIN timers : /\ timers[i].id = op'.target
                                                   /\ timers[i].status = "expired")
            /\ op'.ret => \E i \in DOMAIN timers :
                            /\ timers[i].id = op'.target
                            /\ timers'[i].status = "consumed"
            /\ ~op'.ret => timers' = timers
       /\ Returns("cancel_active") =>
            /\ op'.rowcount = Cardinality(ActiveTimers(timers, op'.campaign_id))
            /\ ActiveTimers(timers', op'.campaign_id) = {}
      ]_vars

\* A timer has gone all the way to consumed, and a second mark_consumed of
\* it has just returned false.
C12_Witness ==
    /\ op.name = "mark_consumed"
    /\ ~op.ret
    /\ \E i \in DOMAIN timers : /\ timers[i].id = op.target
                                /\ timers[i].status = "consumed"
                                /\ timers[i].fired_at # None

\* Two outbox rows carry the same (campaign, session_scope, event_type,
\* idempotency_key).
SameOutboxKey(r1, r2) ==
    /\ r1.campaign_id = r2.campaign_id
    /\ r1.session_scope = r2.session_scope
    /\ r1.event_type = r2.event_type
    /\ r1.idempotency_key = r2.idempotency_key

\* The outbox rows of an event type for a campaign.
OutboxRows(table, c, event_type) ==
    {row \in table : row.campaign_id = c /\ row.event_type = event_type}

\* C13: OutboxRepo.add with a (campaign, session_scope, event_type,
\* idempotency_key) that is present leaves the table as it is and does not
\* raise: no two rows ever share the four, no row that is present changes
\* or goes, a missing session id is stored as the scope "__none__", and the
\* transaction that made the duplicate add still commits its other writes
\* (a rewind to a target rewound to before; a turn whose scene-image key is
\* that of a turn a rewind deleted).
C13_DuplicateOutboxAddIsNoOp ==
    [][/\ \A r1, r2 \in outbox' : SameOutboxKey(r1, r2) => r1 = r2
       /\ outbox \subseteq outbox'
       /\ \A row \in outbox' :
            row.session_scope = (IF row.session_id = None THEN "__none__"
                                 ELSE TheValue(row.session_id))
       /\ (Returns("rewind_to_turn") /\ op'.status = "ok") =>
            LET c == op'.campaign_id
                present == {row \in OutboxRows(outbox, c, "memory_prune_requested") :
                              row.idempotency_key = <<"rewind", op'.target>>}
            IN  /\ present # {} => outbox' = outbox
                /\ Cardinality({row \in OutboxRows(outbox', c, "memory_prune_requested") :
                                  row.idempotency_key = <<"rewind", op'.target>>}) = 1
                /\ campaigns'[c].row_version = campaigns[c].row_version + 1
                /\ campaigns'[c].memory_visible_max_turn_id = Some(op'.target)
       /\ \A k \in Calls :
            (ReturnsOk(k) /\ llm_output[k].scene_image_prompt # None) =>
                LET c  == input[k].campaign_id
                    id == turns'[Len(turns')].id
                    room_key == _room_key_from_state(parse_json_dict(
                                    players'[Key(c, input[k].actor_id)].state_json))
                    scene(table) == {row \in OutboxRows(table, c, "scene_image_requested") :
                                        row.idempotency_key = <<"scene_image", id, room_key>>}
                IN  /\ Len(turns') > Len(turns)
                    /\ turns'[Len(turns')].kind = "narrator"
                    /\ Cardinality(scene(outbox')) = 1
                    /\ scene(outbox) \subseteq scene(outbox')
                    /\ campaigns'[c].row_version = campaigns[c].row_version + 1
      ]_vars

\* One turn was resolved and the campaign was rewound to it twice: both
\* rewinds committed (row_version 1, then the turn, then two rewinds) and the
\* outbox holds one memory_prune_requested row.
C13_Witness ==
    \E c \in DOMAIN campaigns :
        /\ op.name = "rewind_to_turn"
        /\ op.status = "ok"
        /\ op.campaign_id = c
        /\ op.calls = 2
        /\ \A k \in Caller : trace[k].phase_a = 1
        /\ campaigns[c].row_version = 4
        /\ Cardinality(OutboxRows(outbox, c, "memory_prune_requested")) = 1

\* rewind_to_turn returns ok in this step.
RewindReturnsOk == Returns("rewind_to_turn") /\ op'.status = "ok"

\* The rows of a turns table that satisfy a condition on campaign and id.
TurnRows(table, Cond(_, _)) ==
    {table[i] : i \in {j \in DOMAIN table : Cond(table[j].campaign_id, table[j].id)}}

\* The rows of a snapshots table that satisfy a condition on campaign and
\* turn id.
SnapshotRows(table, Cond(_, _)) ==
    {snap \in table : Cond(snap.campaign_id, snap.turn_id)}

\* C14: when rewind_to_turn(campaign, T) returns ok, the campaign has no
\* turn and no snapshot with an id above T, its turns and snapshots with an
\* id up to T are as they were, deleted_turns is the number of turns that
\* went, memory_visible_max_turn_id is T, and the turns and snapshots of the
\* other campaigns are as they were.
C14_RewindTruncates ==
    [][RewindReturnsOk =>
        LET c == op'.campaign_id
            T == op'.target
            After(campaign_id, id)  == campaign_id = c /\ id > T
            UpTo(campaign_id, id)   == campaign_id = c /\ id <= T
            Others(campaign_id, id) == campaign_id # c
        IN  /\ TurnRows(turns', After) = {}
            /\ SnapshotRows(snapshots', After) = {}
            /\ TurnRows(turns', UpTo) = TurnRows(turns, UpTo)
            /\ SnapshotRows(snapshots', UpTo) = SnapshotRows(snapshots, UpTo)
            /\ op'.deleted_turns = Cardinality(TurnRows(turns, After))
            /\ op'.deleted_turns = Len(turns) - Len(turns')
            /\ campaigns'[c].memory_visible_max_turn_id = Some(T)
            /\ TurnRows(turns', Others) = TurnRows(turns, Others)
            /\ SnapshotRows(snapshots', Others) = SnapshotRows(snapshots, Others)
      ]_vars

\* A rewind has returned ok after it deleted the two turns of a later turn
\* of the campaign, and the store still holds the turns up to the target.
C14_Witness ==
    /\ op.name = "rewind_to_turn"
    /\ op.status = "ok"
    /\ op.deleted_turns = 2
    /\ \E i \in DOMAIN turns : /\ turns[i].campaign_id = op.campaign_id
                               /\ turns[i].id = op.target
    /\ \E snap \in snapshots : /\ snap.campaign_id = op.campaign_id
                               /\ snap.turn_id = op.target

\* The snapshot of a campaign's turn.
SnapshotOf(table, c, T) == TheValue(get_by_campaign_turn_id(table, c, T))

\* C15: when rewind_to_turn(campaign, T) returns ok, the campaign's state,
\* characters, summary and last_narration are those stored in the snapshot
\* of turn T, and every player of that snapshot's players payload that has a
\* row has the level, xp, attributes and state stored there.
C15_RewindRestoresSnapshot ==
    [][RewindReturnsOk =>
        LET c    == op'.campaign_id
            snap == SnapshotOf(snapshots, c, op'.target)
        IN  /\ get_by_campaign_turn_id(snapshots, c, op'.target) # None
            /\ campaigns'[c].state_json = snap.campaign_state_json
            /\ campaigns'[c].characters_json = snap.campaign_characters_json
            /\ campaigns'[c].summary = snap.campaign_summary
            /\ campaigns'[c].last_narration = snap.campaign_last_narration
            /\ \A pdata \in PlayersData(snap.players_json) :
                 Key(c, pdata.actor_id) \in DOMAIN players' =>
                    LET player == players'[Key(c, pdata.actor_id)]
                    IN  /\ player.level = pdata.level
                        /\ player.xp = pdata.xp
                        /\ player.attributes_json = pdata.attributes_json
                        /\ player.state_json = pdata.state_json
      ]_vars

\* A scene turn was followed by a turn on the road, which gave the player xp
\* and a location and the campaign a summary; the rewind to the scene turn
\* has taken them back.
C15_Witness ==
    \E c \in DOMAIN campaigns :
        /\ op.name = "rewind_to_turn"
        /\ op.status = "ok"
        /\ op.campaign_id = c
        /\ op.deleted_turns = 2
        /\ Len(timers) = 1
        /\ campaigns[c].row_version = 4
        /\ campaigns[c].summary = <<>>
        /\ campaigns[c].state_json = dump_json(("k" :> "v"))
        /\ \A key \in DOMAIN players :
              players[key].xp = 0 /\ players[key].state_json = dump_json(EmptyMap)

\* rewind_to_turn returns from a call for a campaign and a target that the
\* call before it (with no turn of the campaign committed since) rewound to.
SecondRewind ==
    /\ Returns("rewind_to_turn")
    /\ op.name = "rewind_to_turn"
    /\ op.status = "ok"
    /\ op'.campaign_id = op.campaign_id
    /\ op'.target = op.target
    /\ \A i \in DOMAIN turns :
          ~(turns[i].campaign_id = op.campaign_id /\ turns[i].id > op.target)

C17_SnapshotNotFoundChangesNothing ==
    [][Returns("rewind_to_turn") =>
        LET missing == ~\E snap \in snapshots : /\ snap.campaign_id = op'.campaign_id
                                                 /\ snap.turn_id = op'.target
        IN  /\ missing => /\ op'.status = "error"
                          /\ op'.reason = "snapshot_not_found"
                          /\ UNCHANGED db
            /\ op'.reason = "snapshot_not_found" => missing
      ]_vars

\* A rewind of one campaign to the narrator turn of another, which has a
\* snapshot there, has returned snapshot_not_found.
C17_Witness ==
    /\ op.name = "rewind_to_turn"
    /\ op.status = "error"
    /\ op.reason = "snapshot_not_found"
    /\ \E snap \in snapshots : /\ snap.turn_id = op.target
                               /\ snap.campaign_id # op.campaign_id
    /\ \E i \in DOMAIN turns : /\ turns[i].campaign_id = op.campaign_id
                               /\ turns[i].kind = "narrator"

\* filter_memory_hits_by_visibility returns in this step.
FilterReturns == op' # op /\ op'.name = "filter_memory_hits_by_visibility"

\* A hit's turn_id is a number (or the text of one) that is at most w.
AtMost(hit, w) == hit.turn_id.kind # "none" /\ hit.turn_id.value <= w

\* out is what is left of hits, in the order of hits, when exactly the hits
\* that fail Keep are dropped.
IsSelection(out, hits, Keep(_)) ==
    LET kept == {j \in DOMAIN hits : Keep(hits[j])}
    IN  /\ Len(out) = Cardinality(kept)
        /\ \E f \in [DOMAIN out -> kept] :
              /\ \A i, j \in DOMAIN out : i < j => f[i] < f[j]
              /\ \A i \in DOMAIN out : out[i] = hits[f[i]]

\* C18: filter_memory_hits_by_visibility(campaign, hits) returns, in the
\* order of hits, exactly the hits whose turn_id is at most the campaign's
\* memory_visible_max_turn_id when the campaign has one, and hits itself
\* when it has none.
C18_FilterKeepsVisibleHits ==
    [][FilterReturns =>
        LET watermark == campaigns[op'.campaign_id].memory_visible_max_turn_id
            Keep(hit) == AtMost(hit, TheValue(watermark))
        IN  IF watermark = None THEN op'.hits = op'.given_hits
            ELSE IsSelection(op'.hits, op'.given_hits, Keep)
      ]_vars

\* Two hits were filtered for a campaign whose watermark is 2: the one of
\* turn "3" was dropped and the one of turn 2, which came second, was kept.
C18_Witness ==
    /\ op.name = "filter_memory_hits_by_visibility"
    /\ campaigns[op.campaign_id].memory_visible_max_turn_id = Some(2)
    /\ Len(op.given_hits) = 2
    /\ op.given_hits[1].turn_id = [kind |-> "str", value |-> 3]
    /\ op.given_hits[2].turn_id = [kind |-> "int", value |-> 2]
    /\ op.hits = <<op.given_hits[2]>>

\* The snapshots stored for a turn id.
SnapshotsOfTurn(turn_id) == {snap \in snapshots : snap.turn_id = turn_id}

\* C19: in every reachable state every narrator turn has exactly one
\* snapshot with its turn_id, and every snapshot refers to an existing
\* narrator turn of its own campaign: no state shows a narrator turn before
\* its snapshot or its campaign CAS, whether resolve_turn wrote the turn or
\* an emulator path did (the timer interruption note, the look/inventory
\* shortcut).
C19_NarratorTurnHasOneSnapshot ==
    /\ \A i \in DOMAIN turns :
          turns[i].kind = "narrator" =>
              Cardinality(SnapshotsOfTurn(turns[i].id)) = 1
    /\ \A snap \in snapshots :
          \E i \in DOMAIN turns : /\ turns[i].id = snap.turn_id
                                  /\ turns[i].kind = "narrator"
                                  /\ turns[i].campaign_id = snap.campaign_id

\* A turn resolve_turn wrote, an interruption note and an inventory answer
\* stand in the turns table.
C19_Witness ==
    /\ \E i \in DOMAIN turns : /\ turns[i].kind = "narrator"
                               /\ SnapshotsOfTurn(turns[i].id) # {}
    /\ \E i \in DOMAIN turns : /\ turns[i].kind = "narrator"
                               /\ turns[i].content[1] = "[TIMER INTERRUPTED]"
    /\ \E i \in DOMAIN turns : /\ turns[i].kind = "narrator"
                               /\ turns[i].content[1] \in INVENTORY_LINES
                               /\ Len(turns[i].content) = 1

\* The id of the campaign's most recent narrator turn, if it has one.
LastNarratorTurnId(campaign_id) ==
    LET narrators == {i \in DOMAIN turns : /\ turns[i].campaign_id = campaign_id
                                           /\ turns[i].kind = "narrator"}
    IN  IF narrators = {} THEN None
        ELSE Some(turns[CHOOSE i \in narrators :
                            \A j \in narrators : turns[j].id <= turns[i].id].id)

\* The play action of call k has finished with a turn of the campaign, and
\* nothing has been committed to the campaign since.
JustPlayed(k, campaign_id) ==
    /\ pc[k] = "returned"
    /\ result[k].status = "ok"
    /\ input[k].campaign_id = campaign_id
    /\ campaigns[campaign_id].row_version = context[k].start_row_version + 1

\* C20: a rewind to the campaign's most recent narrator turn that returns ok
\* right after the play action that produced the turn has finished (its
\* give-item transfer and its decoration included) leaves the campaign's
\* state, characters, summary and last_narration, and every player's level,
\* xp, attributes and state, as they were.
C20_RewindRightAfterTurnChangesNothing ==
    [][ \A k \in Caller :
          (/\ RewindReturnsOk
           /\ JustPlayed(k, op'.campaign_id)
           /\ LastNarratorTurnId(op'.campaign_id) = Some(op'.target)) =>
            LET c == op'.campaign_id
            IN  /\ campaigns'[c].state_json = campaigns[c].state_json
                /\ campaigns'[c].characters_json = campaigns[c].characters_json
                /\ campaigns'[c].summary = campaigns[c].summary
                /\ campaigns'[c].last_narration = campaigns[c].last_narration
                /\ DOMAIN players' = DOMAIN players
                /\ \A key \in DOMAIN players :
                      /\ players'[key].level = players[key].level
                      /\ players'[key].xp = players[key].xp
                      /\ players'[key].attributes_json = players[key].attributes_json
                      /\ players'[key].state_json = players[key].state_json ]_vars

\* A rewind to the most recent narrator turn has returned ok right after the
\* play action that handed the lamp over.
C20_Witness ==
    \E k \in Caller :
        /\ pc[k] = "returned"
        /\ result[k].status = "ok"
        /\ llm_output[k] = GiveOutput
        /\ pre_inventory_rich[k] # <<>>
        /\ op.name = "rewind_to_turn"
        /\ op.status = "ok"
        /\ op.campaign_id = input[k].campaign_id
        /\ LastNarratorTurnId(op.campaign_id) = Some(op.target)
        /\ campaigns[op.campaign_id].row_version = context[k].start_row_version + 2

\* The give_item_unresolved rows of an outbox table.
UnresolvedRows(table) == {row \in table : row.event_type = "give_item_unresolved"}

\* Call k commits its turn in this step.
Commits(k) == pc[k] = "phase_c_write" /\ pc'[k] = "done" /\ result'[k].status = "ok"

\* The give_item of call k's output names no actor, and the engine's
\* resolver, if it has one, resolves no mention of it.
UnresolvedTarget(k) ==
    LET give_item == llm_output[k].give_item
        gi == TheValue(give_item)
    IN  /\ give_item # None
        /\ gi.item # ""
        /\ gi.to_actor_id = None
        /\ \/ gi.to_discord_mention = None
           \/ _actor_resolver = None
           \/ TheValue(gi.to_discord_mention) \notin DOMAIN TheValue(_actor_resolver)

\* The original statement of C21: every turn that commits with an
\* unresolved give_item adds exactly one give_item_unresolved row.
C21_Original ==
    [][ \A k \in Calls :
          (Commits(k) /\ UnresolvedTarget(k)) =>
              Cardinality(UnresolvedRows(outbox') \ UnresolvedRows(outbox)) = 1 ]_vars

\* C21: an unresolved give_item does not keep Phase C from committing: when
\* the row version is the expected one the call returns ok and the narrator
\* turn and its snapshot are committed.  The commit adds one
\* give_item_unresolved row that carries the issue and the original payload,
\* keyed by the actor and Phase C's clock reading, unless the outbox holds a
\* row of that key already (an earlier unresolved give of the actor at the
\* same clock reading), in which case the outbox is left as it is.  A commit
\* whose output has no give_item adds no such row.
C21_UnresolvedGiveItemIsNonFatal ==
    [][ \A k \in Calls :
          LET c   == input[k].campaign_id
              key == <<"give_item_unresolved", input[k].actor_id, phase_c[k].now>>
              held == {row \in UnresolvedRows(outbox) :
                         /\ row.campaign_id = c
                         /\ row.session_id = input[k].session_id
                         /\ row.idempotency_key = key}
              added == UnresolvedRows(outbox') \ UnresolvedRows(outbox)
          IN  /\ (/\ pc[k] = "phase_c_write"
                  /\ pc'[k] # "phase_c_write"
                  /\ UnresolvedTarget(k)
                  /\ campaigns[c].row_version = context[k].start_row_version) =>
                    Commits(k)
              /\ (Commits(k) /\ UnresolvedTarget(k)) =>
                    /\ Len(turns') > Len(turns)
                    /\ turns'[Len(turns')].kind = "narrator"
                    /\ \E snap \in snapshots' \ snapshots :
                          snap.turn_id = turns'[Len(turns')].id
                    /\ IF held = {}
                       THEN /\ Cardinality(added) = 1
                            /\ \A row \in added :
                                  /\ row.campaign_id = c
                                  /\ row.idempotency_key = key
                                  /\ row.payload.issue = "unresolved_target"
                                  /\ row.payload.give_item = llm_output[k].give_item
                       ELSE outbox' = outbox
              /\ (Commits(k) /\ llm_output[k].give_item = None) =>
                    UnresolvedRows(outbox') = UnresolvedRows(outbox) ]_vars

\* Two turns with an unresolved give_item have been committed: the outbox
\* holds a row for each of them.
C21_Witness ==
    /\ Cardinality(UnresolvedRows(outbox)) = 2
    /\ \E k \in Calls : /\ pc[k] = "done"
                        /\ result[k].status = "ok"
                        /\ llm_output[k] = UnresolvedGiveOutput
                        /\ _actor_resolver # None

\* The statuses of ResolveTurnResult.
STATUSES == {"ok", "busy", "conflict", "error"}

\* Call k's attempt leaves Phase A, the LLM call, the hook or Phase C by an
\* exception other than TurnBusyError and StaleClaimError in this step.
Raises(k) == pc[k] # "release_error" /\ pc'[k] = "release_error"

\* At most the in-flight row that carries the token is gone.
ReleasedOnly(token) ==
    /\ DOMAIN inflight' \subseteq DOMAIN inflight
    /\ \A key \in DOMAIN inflight :
          IF key \in DOMAIN inflight'
          THEN inflight'[key] = inflight[key]
          ELSE inflight[key].claim_token = token

\* C22: every call of resolve_turn that ends has returned a result whose
\* status is ok, busy, conflict or error.  An exception other than
\* TurnBusyError and StaleClaimError that leaves Phase A, the LLM call, the
\* hook or Phase C commits nothing; the call then runs the best-effort
\* release, which changes no table but inflight and deletes at most the row
\* of the attempt's own token, and returns status=error with str(e) without
\* starting another attempt.
C22_ExceptionsBecomeErrorResults ==
    [][ \A k \in Calls :
          /\ pc'[k] = "done" => result'[k].status \in STATUSES
          /\ Raises(k) =>
                /\ pc[k] \in {"phase_a", "llm", "hook", "phase_c", "phase_c_write"}
                /\ UNCHANGED db
                /\ result'[k].status = "none"
          /\ (pc[k] = "release_error" /\ pc'[k] # "release_error") =>
                /\ pc'[k] = "done"
                /\ result'[k].status = "error"
                /\ result'[k].conflict_reason = trace[k].error
                /\ attempt'[k] = attempt[k]
                /\ trace'[k] = trace[k]
                /\ UNCHANGED writes
                /\ ReleasedOnly(ClaimToken(k)) ]_vars

\* A call whose LLM answered has returned error after an exception of the
\* hook or of Phase C, its claim released, nothing of the turn committed;
\* another call's Phase A raised.
C22_Witness ==
    \E k, j \in Calls :
        /\ k # j
        /\ pc[k] = "done" /\ result[k].status = "error"
        /\ trace[k].llm = 1 /\ trace[k].phase_a = 1
        /\ Key(input[k].campaign_id, input[k].actor_id) \notin DOMAIN inflight
        /\ turns = <<>>
        /\ pc[j] = "done" /\ result[j].status = "error"
        /\ trace[j].phase_a = 0

\* The in-flight rows of a table that carry a token issued by call k.
RowsOf(table, k) == {key \in DOMAIN table : table[key].claim_token \in trace[k].tokens}

\* Call k returns ok, conflict or error in this step.
ReturnsReleased(k) ==
    /\ pc[k] # "done"
    /\ pc'[k] = "done"
    /\ result'[k].status \in {"ok", "conflict", "error"}

TimerScheduledRows(table) == {row \in table : row.event_type = "timer_scheduled"}

\* Call k's attempt fails in Phase C in this step.
FailsInPhaseC(k) == pc[k] \in {"phase_c", "phase_c_write"} /\ pc'[k] = "release"

\* C24: the step that commits a turn called with allow_timer_instruction
\* whose output has a timer_instruction cancels every active timer of the
\* campaign, inserts exactly one timer, scheduled_unbound and due at Phase
\* C's clock reading plus max(30, delay_seconds), which is then the
\* campaign's only active timer, and adds exactly one timer_scheduled row,
\* keyed by the new timer's id.  An attempt that fails in Phase C leaves
\* timers and outbox as they were, and no step but a commit changes timers.
C24_TimerInstructionSchedulesOneTimer ==
    [][ /\ \A k \in Calls :
            LET c  == input[k].campaign_id
                ti == TheValue(llm_output[k].timer_instruction)
                id == Len(timers')
                added == outbox' \ outbox
            IN  /\ (/\ Commits(k)
                    /\ input[k].allow_timer_instruction
                    /\ llm_output[k].timer_instruction # None) =>
                      /\ Len(timers') = Len(timers) + 1
                      /\ \A i \in DOMAIN timers :
                            IF timers[i].campaign_id = c /\ timers[i].status \in ACTIVE
                            THEN /\ timers'[i].status = "cancelled"
                                 /\ timers'[i].id = timers[i].id
                            ELSE timers'[i] = timers[i]
                      /\ timers'[id].campaign_id = c
                      /\ timers'[id].status = "scheduled_unbound"
                      /\ timers'[id].due_at
                            = phase_c[k].now + (IF ti.delay_seconds > 30
                                                THEN ti.delay_seconds ELSE 30)
                      /\ timers'[id].event_text = ti.event_text
                      /\ \A i \in DOMAIN timers : timers[i].id # timers'[id].id
                      /\ {i \in DOMAIN timers' : /\ timers'[i].campaign_id = c
                                                 /\ timers'[i].status \in ACTIVE} = {id}
                      /\ Cardinality(TimerScheduledRows(added)) = 1
                      /\ \A row \in TimerScheduledRows(added) :
                            /\ row.campaign_id = c
                            /\ row.idempotency_key = <<"timer_scheduled", timers'[id].id>>
                            /\ row.payload.timer_id = timers'[id].id
                /\ FailsInPhaseC(k) => (timers' = timers /\ outbox' = outbox)
        /\ timers' # timers => \E k \in Calls : Commits(k) ]_vars

\* A turn has committed a timer under a timer that was active: the earlier
\* one is cancelled, the later one is active and due 30 seconds after Phase
\* C's clock reading though its instruction asked for no delay.
C24_Witness ==
    /\ Len(timers) = 2
    /\ timers[1].status = "cancelled"
    /\ timers[2].status = "scheduled_unbound"
    /\ timers[2].event_text = "The floor collapses."
    /\ timers[2].due_at = now + 30
    /\ Cardinality(TimerScheduledRows(outbox)) = 2
    /\ \E k \in Calls : trace[k].stale > 0 /\ result[k].status = "ok"

\* A countdown task wakes in this step: its sleep is over and it goes on to
\* the timed event.
Wakes(i) == tasks[i].state = "sleeping" /\ tasks'[i].state \in {"skipped", "resolving"}

\* C25: a call with allow_timer_instruction=false changes no timer row and
\* adds no timer_scheduled row when it commits, whatever its output's
\* timer_instruction; a call with record_player_turn=false appends the
\* narrator turn and no other.  A countdown task that goes on to
\* resolve_turn passes both flags false, and what a timed event returns
\* creates no countdown task and no pending entry.
C25_FlagsOffNoTimerNoPlayerTurn ==
    [][ /\ \A k \in Calls :
              /\ (Commits(k) /\ ~input[k].allow_timer_instruction) =>
                    /\ timers' = timers
                    /\ TimerScheduledRows(outbox') = TimerScheduledRows(outbox)
              /\ (Commits(k) /\ ~input[k].record_player_turn) =>
                    /\ Len(turns') = Len(turns) + 1
                    /\ SubSeq(turns', 1, Len(turns)) = turns
                    /\ turns'[Len(turns')].kind = "narrator"
              /\ (Commits(k) /\ input[k].record_player_turn) =>
                    /\ Len(turns') = Len(turns) + 2
                    /\ turns'[Len(turns') - 1].kind = "player"
        /\ \A i \in DOMAIN tasks : \A k \in Calls :
              (Wakes(i) /\ pc[k] = "idle" /\ pc'[k] # "idle") =>
                    /\ ~input'[k].record_player_turn
                    /\ ~input'[k].allow_timer_instruction
        /\ \A k \in TimerCaller :
              (pc[k] # "idle" /\ pc'[k] # pc[k]) =>
                    /\ timers' = timers
                    /\ Len(tasks') = Len(tasks)
                    /\ _pending_timers' = _pending_timers
                    /\ \A j \in DOMAIN turns' \ DOMAIN turns : turns'[j].kind = "narrator"
      ]_vars

\* A timed event whose output had a timer_instruction has been resolved and
\* emitted: the turn it added is a narrator's, and the timers table holds
\* the one timer the player's turn had scheduled.
C25_Witness ==
    /\ Len(emits) = 1
    /\ emits[1].narration = <<"A scene happens.">>
    /\ Len(timers) = 1
    /\ Len(turns) = 3
    /\ turns[3].kind = "narrator"
    /\ turns[3].content = <<"A scene happens.">>
    /\ turns[1].kind = "player"
    /\ Cardinality(TimerScheduledRows(outbox)) = 1

\* C26: when a countdown task wakes while the campaign's latest turn is a
\* player's and less than 5 seconds old, the timed event is skipped: the
\* task ends, no call of resolve_turn starts, and turns, players and what
\* was emitted stay as they are; a skipped task stays skipped.  A latest
\* player turn of 5 seconds or more does not skip the event of a campaign
\* that has a player.
C26_RaceGuardSkipsTimedEvent ==
    [][ \A i \in DOMAIN tasks :
          LET c == tasks[i].campaign_id
              latest == TheValue(LatestTurn(c))
              young == /\ LatestTurn(c) # None
                       /\ latest.kind = "player"
                       /\ now - latest.created_at < 5
          IN  /\ (Wakes(i) /\ young) =>
                    /\ tasks'[i].state = "skipped"
                    /\ UNCHANGED <<pc, input, db, emits>>
              /\ (/\ Wakes(i)
                  /\ ~young
                  /\ \E key \in DOMAIN players : key[1] = c) =>
                    tasks'[i].state = "resolving"
              /\ tasks[i].state = "skipped" => tasks'[i].state = "skipped"
              /\ Len(emits') > Len(emits) => \E j \in DOMAIN tasks :
                    tasks[j].state = "resolving" /\ tasks'[j].state = "done" ]_vars

\* A countdown task has been skipped by the race guard: the latest turn is
\* the player turn the host recorded at this very clock reading, after the
\* turn that scheduled the timer, and nothing was emitted.
C26_Witness ==
    \E i \in DOMAIN tasks :
        /\ tasks[i].state = "skipped"
        /\ RaceGuard(tasks[i].campaign_id)
        /\ now > 0
        /\ Len(turns) = 3
        /\ turns[3].kind = "player"
        /\ turns[3].created_at = now
        /\ emits = <<>>

\* The countdown tasks of a campaign that are asleep.
LiveTasks(c) == {i \in DOMAIN tasks : tasks[i].campaign_id = c /\ tasks[i].state = "sleeping"}

\* No play action is between its begin and its return.
NoPlayUnderWay == \A k \in Caller : pc[k] \in {"idle", "returned"}

\* C27: whenever no play action is under way, a campaign has at most one
\* countdown task asleep; that task is the one the campaign's pending entry
\* names, and the campaign has an active timer row with its event.  (A
\* schedule over a pending countdown would have cancelled the countdown it
\* supersedes.)
C27_OneLiveCountdownPerCampaign ==
    NoPlayUnderWay =>
        \A c \in DOMAIN campaigns :
            /\ Cardinality(LiveTasks(c)) <= 1
            /\ \A i \in LiveTasks(c) :
                  /\ c \in DOMAIN _pending_timers
                  /\ _pending_timers[c].task = i
                  /\ \E t \in ActiveTimers(timers, c) :
                        timers[t].event_text = tasks[i].event_description

\* A play action has scheduled a countdown over the pending countdown of a
\* timer that cannot be interrupted, and has returned.
C27_Witness ==
    /\ NoPlayUnderWay
    /\ Len(tasks) = 2
    /\ tasks[1].event_description = "The floor collapses."
    /\ tasks[1].state # "cancelled"
    /\ "campaign-1" \in DOMAIN _pending_timers
    /\ _pending_timers["campaign-1"].task = 2
    /\ timers[1].status = "cancelled"
    /\ timers[2].status = "scheduled_unbound"

\* C28: once a play action that began by cancelling a pending interruptible
\* timer has returned, the countdown task of that timer is cancelled and the
\* timer's row is no longer active: the campaign has an active timer row
\* only if the action's own turn scheduled one.
C28_InterruptedTimerRowIsCancelled ==
    \A k \in Caller :
        (pc[k] = "returned" /\ trace[k].cancelled_timer # None) =>
            /\ tasks[TheValue(trace[k].cancelled_timer).task].state = "cancelled"
            /\ Cardinality(ActiveTimers(timers, input[k].campaign_id))
                  = IF result[k].status = "ok" /\ result[k].timer_instruction # None
                    THEN 1 ELSE 0

\* A play action that cancelled a pending interruptible timer has returned
\* ok, its turn having scheduled no timer: the countdown task is cancelled.
C28_Witness ==
    \E k \in Caller :
        /\ pc[k] = "returned"
        /\ trace[k].cancelled_timer # None
        /\ TheValue(trace[k].cancelled_timer).interruptible
        /\ tasks[TheValue(trace[k].cancelled_timer).task].state = "cancelled"
        /\ result[k].status = "ok"
        /\ result[k].timer_instruction = None
        /\ Len(timers) = 1

\* A play action schedules a countdown in this step.
Schedules(k) == pc[k] = "done" /\ pc'[k] = "returned" /\ Len(tasks') = Len(tasks) + 1

\* C29: the countdown a play action schedules for a timer_instruction of
\* delay d on a campaign of speed m runs for d / m seconds clamped to
\* 15..300, and the campaign's active timer row is due that many seconds
\* after the clock reading of the turn.
C29_CountdownAndDueAtUseEffectiveDelay ==
    [][ \A k \in Caller :
          LET c == input[k].campaign_id
              d == TheValue(result[k].timer_instruction).delay_seconds
              m == get_speed_multiplier(campaigns[c])
              scaled == (d * 10) \div m
              effective == IF scaled < 15 THEN 15 ELSE IF scaled > 300 THEN 300 ELSE scaled
          IN  Schedules(k) =>
                /\ tasks'[Len(tasks')].delay_seconds = effective
                /\ effective >= 15 /\ effective <= 300
                /\ \E t \in ActiveTimers(timers', c) :
                      timers'[t].due_at = now + effective ]_vars

\* A play action on a campaign of speed 2.0 has scheduled the countdown of a
\* timer_instruction of 60 seconds: the countdown runs for 30.
C29_Witness ==
    /\ Len(tasks) = 1
    /\ tasks[1].delay_seconds = 30
    /\ tasks[1].event_description = "Boom"
    /\ get_speed_multiplier(campaigns["campaign-1"]) = 20
    /\ \E k \in Caller : pc[k] = "returned"

\* A channel-scoped rewind that found its snapshot returns in this step.
ChannelRewinds ==
    /\ op'.calls = op.calls + 1
    /\ op'.name = "execute_rewind"
    /\ op'.ret

\* The campaign's turns after the target whose session belongs to the
\* channel: by its channel id, its thread id or its key.
ChannelTurnsAfter(c, t, ch) ==
    {i \in DOMAIN turns :
        /\ turns[i].campaign_id = c
        /\ turns[i].id > t
        /\ \E s \in DOMAIN GameSessions :
              /\ turns[i].session_id = {s}
              /\ GameSessions[s].campaign_id = c
              /\ \/ GameSessions[s].surface_channel_id = {ch}
                 \/ GameSessions[s].surface_thread_id = {ch}
                 \/ GameSessions[s].surface_key = ch}

\* C30: a channel-scoped rewind to T deletes the campaign's turns after T
\* whose session belongs to the channel, and no other turn; it deletes the
\* snapshots of those turns, and no other snapshot; it returns T and the
\* number of turns deleted.  Every other turn and snapshot is as it was.
C30_ChannelRewindDeletesOnlyItsChannel ==
    [][ ChannelRewinds =>
          LET gone == ChannelTurnsAfter(op'.campaign_id, op'.target, op'.channel_id)
              ids  == {turns[i].id : i \in gone}
          IN  /\ {turns'[i] : i \in DOMAIN turns'} = {turns[i] : i \in DOMAIN turns \ gone}
              /\ Len(turns') = Len(turns) - Cardinality(gone)
              /\ \A i, j \in DOMAIN turns' : i < j => turns'[i].id < turns'[j].id
              /\ snapshots' = {snap \in snapshots : snap.turn_id \notin ids}
              /\ op'.deleted_turns = Cardinality(gone) ]_vars

\* The rewind of the test has returned: of three actions, from the first
\* channel, the second and the first again, the rewind to turn 2 for the
\* first channel deleted the two turns of the third action and left those of
\* the second channel, with their snapshot.
C30_Witness ==
    /\ op.name = "execute_rewind"
    /\ op.ret
    /\ op.target = 2
    /\ op.channel_id = "100"
    /\ op.deleted_turns = 2
    /\ [i \in DOMAIN turns |-> turns[i].id] = <<1, 2, 3, 4>>
    /\ [i \in DOMAIN turns |-> turns[i].session_id]
          = <<{"session-1"}, {"session-1"}, {"session-2"}, {"session-2"}>>
    /\ {snap.turn_id : snap \in snapshots} = {2, 4}

\* C38: apply_patch(base, patch) returns a dict without the keys the patch
\* holds None for, with the patch's value, whole, for every other key of the
\* patch, and with base's value for every key of base the patch does not
\* hold; base and patch are as they were; and the patch applied to the
\* result gives the result again.
C38_ApplyPatchIsShallowMerge ==
    [][ Returns("apply_patch") =>
          LET base   == op.args[1]
              patch  == op.args[2]
              merged == op'.value[Len(op'.value)]
          IN  /\ op'.args = op.args
              /\ Len(op'.value) = 1 =>
                    /\ \A key \in DOMAIN patch :
                          IF patch[key] = JsonNull THEN key \notin DOMAIN merged
                          ELSE key \in DOMAIN merged /\ merged[key] = patch[key]
                    /\ \A key \in DOMAIN base \ DOMAIN patch :
                          key \in DOMAIN merged /\ merged[key] = base[key]
                    /\ DOMAIN merged \subseteq DOMAIN base \cup DOMAIN patch
              /\ Len(op'.value) = 2 => merged = op.value[1] ]_vars

\* The patch was applied twice to a base that held an object for "k" and a
\* value for "quest": the patch held another object for "k" and None for
\* "quest".
C38_Witness ==
    /\ op.name = "apply_patch"
    /\ Len(op.value) = 2
    /\ op.args[1] = ("k" :> ObjectText(("a" :> "1"))) @@ ("quest" :> "v")
    /\ op.args[2] = ("k" :> ObjectText(("b" :> "2"))) @@ ("quest" :> JsonNull)
    /\ op.value[2] = ("k" :> ObjectText(("b" :> "2")))

\* Call k holds a context Phase A built for campaign c, and has not yet
\* committed or given the attempt up.
HoldsContext(k, c) ==
    /\ pc[k] \in {"llm", "hook", "phase_c", "phase_c_write"}
    /\ input[k].campaign_id = c

\* C36: a rewind_to_turn that commits while an attempt of resolve_turn on
\* its campaign holds a context leaves the campaign at a row_version above
\* the context's; as long as the attempt holds that context the row_version
\* stays another; Phase C of such an attempt raises StaleClaim (for
\* row_version_changed at its reads, at its CAS else) and writes nothing;
\* and no turn is committed from a context whose row_version the campaign
\* has left.
C36_RewindMakesInFlightAttemptStale ==
    [][ \A k \in Calls :
          LET c == input[k].campaign_id
          IN  /\ (RewindReturnsOk /\ HoldsContext(k, op'.campaign_id)) =>
                    /\ campaigns'[c].row_version > context[k].start_row_version
                    /\ UNCHANGED <<pc, context>>
              /\ (/\ HoldsContext(k, c)
                  /\ RowVersionChanged(k)
                  /\ pc'[k] \in {"llm", "hook", "phase_c", "phase_c_write"}) =>
                    /\ context'[k] = context[k]
                    /\ campaigns'[c].row_version # context[k].start_row_version
              /\ (pc[k] \in {"phase_c", "phase_c_write"} /\ RowVersionChanged(k) /\ Steps(k)) =>
                    /\ pc'[k] = "release"
                    /\ trace'[k].stale = trace[k].stale + 1
                    /\ trace'[k].stale_reason =
                          IF pc[k] = "phase_c_write" THEN "cas_failed"
                          ELSE IF ClaimLost(k) THEN "claim_invalid"
                          ELSE "row_version_changed"
                    /\ UNCHANGED <<campaigns, players, turns, snapshots, timers, outbox>>
              /\ Commits(k) => ~RowVersionChanged(k) ]_vars

\* A rewind has committed while an attempt waited for its LLM output, and
\* Phase C of that attempt has raised StaleClaim for row_version_changed: the
\* turns are those the rewind left.
C36_Witness ==
    \E k \in Calls :
        /\ pc[k] = "release"
        /\ trace[k].stale_reason = "row_version_changed"
        /\ op.name = "rewind_to_turn"
        /\ op.status = "ok"
        /\ op.deleted_turns = 0
        /\ campaigns[input[k].campaign_id].memory_visible_max_turn_id = {op.target}
        /\ Len(turns) = 2

\* The ids of the turns the rewind op still tells of has deleted: those
\* after its target (the campaign is the only one, its ids have no gaps).
DeletedTurnIds == (op.target + 1)..(op.target + op.deleted_turns)

\* C35: the hits filter_memory_hits_by_visibility returns after a rewind,
\* however many turns were committed since, hold no hit whose turn_id is the
\* id of a turn the rewind deleted.
C35_FilterHidesDeletedTurns ==
    op.name = "filter_memory_hits_by_visibility" =>
        \A i \in DOMAIN op.hits :
            int_turn_id(op.hits[i]) # None =>
                TheValue(int_turn_id(op.hits[i])) \notin DeletedTurnIds

\* The hits were filtered after a rewind that deleted two turns and a turn
\* committed since; the hits given held one of turn 3, which the rewind had
\* deleted.
C35_Witness ==
    /\ op.name = "filter_memory_hits_by_visibility"
    /\ op.target = 2
    /\ op.deleted_turns = 2
    /\ Len(turns) = 4
    /\ campaigns["campaign-1"].memory_visible_max_turn_id = {4}
    /\ \E i \in DOMAIN op.given_hits : int_turn_id(op.given_hits[i]) = {3}

\* The pair a call plays for.
PlayKey(k) == Key(input[k].campaign_id, input[k].actor_id)

\* play_action has called resolve_turn and has not returned.
InTry(k) == pc[k] \notin {"idle", "returned"}

C33_XpNonNegative ==
    \A key \in DOMAIN players : players[key].xp >= 0

\* level_up has returned true for a player object that was loaded before an
\* earlier level_up: the row is a level ahead of the object.
C33_Witness ==
    /\ op.name = "level_up"
    /\ op.ret
    /\ loaded_player # None
    /\ LET obj == TheValue(loaded_player)
       IN  players[Key(obj.campaign_id, obj.actor_id)].level > obj.level + 1

\* The countdown of task i has fired: its sleep is over and its timed event
\* is being resolved or was resolved.
Fired(i) == tasks[i].state \in {"resolving", "done"}

\* C37: once a countdown has fired, the timer row it belongs to (the i-th
\* row for the i-th countdown, every turn that schedules coming from one
\* session) is no longer scheduled_unbound or scheduled_bound, and
\* register_timer_message binds no message to the row of a countdown that
\* has fired.
C37_FiredTimerLeavesActive ==
    [][/\ \A i \in DOMAIN tasks' :
            (Fired(i)' /\ i \in DOMAIN timers') => timers'[i].status \notin ACTIVE
       /\ (Returns("register_timer_message") /\ op'.ret) =>
            ~(op'.target \in DOMAIN tasks /\ Fired(op'.target))
      ]_vars

\* The countdown has fired and its event was delivered to the port;
\* register_timer_message has bound a message to its timer row, which is
\* active still.
C37_Witness ==
    /\ emits # <<>>
    /\ op.name = "register_timer_message"
    /\ op.ret
    /\ op.calls = 1
    /\ op.target \in DOMAIN tasks
    /\ tasks[op.target].state = "done"
    /\ timers[op.target].status = "scheduled_bound"
    /\ op.campaign_id \notin DOMAIN _pending_timers

\* _apply_give_item_transfer is called in this step.
Transfers == op.name = "none" /\ op'.name = "_apply_give_item_transfer"

\* The inventory a players table holds for an actor of campaign-1, as it is
\* stored, and whether it holds an item, whatever the item's case.
StoredInventory(table, actor_id) ==
    LET player_state == parse_json_dict(table[Key("campaign-1", actor_id)].state_json)
    IN  IF "inventory" \in DOMAIN player_state
        THEN INVENTORIES[player_state["inventory"]] ELSE <<>>

ItemIndices(entries, item) ==
    {i \in DOMAIN entries : lower(entries[i].name) = lower(item)}

Holds(table, actor_id, item) ==
    /\ Key("campaign-1", actor_id) \in DOMAIN table
    /\ ItemIndices(StoredInventory(table, actor_id), item) # {}

\* The actor a give_item names: its to_actor_id, or the number its mention
\* holds.
GiveTarget(gi) ==
    IF gi.to_actor_id # None THEN TheValue(gi.to_actor_id)
    ELSE MentionActorId(TheValue(gi.to_discord_mention))

\* C31: for a call with a give_item: when the target is a player other than
\* the source and the source held the item before the turn or holds it
\* after, whatever the case of its name, the source does not hold it
\* afterwards and keeps its other items, and the target holds it exactly
\* once, its entry new with the origin "Received from <@source>" unless the
\* target held it already, in which case its inventory is as it was; when
\* the source neither held nor holds the item, or the target is the source
\* or has no player row, the players table is left as it was.
C31_ExplicitGiveTransfers ==
    [][(Transfers /\ op.args[4] # None) =>
        LET table  == op.args[1]
            out    == op'.value[1]
            gi     == TheValue(op.args[4])
            pre    == op.args[5]
            target == GiveTarget(gi)
            source_before == StoredInventory(table, SourceActorId)
            target_before == StoredInventory(table, target)
            target_after  == StoredInventory(out, target)
            exists == /\ target # SourceActorId
                      /\ Key("campaign-1", target) \in DOMAIN table
            held   == \/ ItemIndices(pre, gi.item) # {}
                      \/ Holds(table, SourceActorId, gi.item)
        IN  /\ DOMAIN out = DOMAIN table
            /\ (exists /\ held) =>
                  /\ ~Holds(out, SourceActorId, gi.item)
                  /\ StoredInventory(out, SourceActorId) =
                        Subsequence(source_before,
                                    DOMAIN source_before \ ItemIndices(source_before, gi.item))
                  /\ Cardinality(ItemIndices(target_after, gi.item)) = 1
                  /\ IF Holds(table, target, gi.item)
                     THEN target_after = target_before
                     ELSE target_after =
                            Append(target_before,
                                   [name |-> gi.item, origin |-> "Received from <@1>"])
            /\ ~(exists /\ held) => out = table
      ]_vars

\* The source had nothing before its turn, holds the lamp after it and gave
\* the lamp to the target, a player without it: the call has left the source
\* the lamp and the target without it.
C31_Witness ==
    /\ op.name = "_apply_give_item_transfer"
    /\ op.args[4] = Some([item |-> "lamp", to_actor_id |-> Some("2"),
                          to_discord_mention |-> None])
    /\ op.args[5] = <<>>
    /\ Key("campaign-1", TargetActorId) \in DOMAIN op.args[1]
    /\ StoredInventory(op.args[1], TargetActorId) = <<>>
    /\ StoredInventory(op.value[1], SourceActorId) = <<Entry("lamp", "")>>
    /\ StoredInventory(op.value[1], TargetActorId) = <<>>

\* The names of the inventory before the turn that the source does not hold
\* after it.
Removed(pre, table) ==
    Subsequence([i \in DOMAIN pre |-> pre[i].name],
                {i \in DOMAIN pre : ~Holds(table, SourceActorId, pre[i].name)})

\* The actors other than the source that a narration mentions, in order.
OthersMentioned(narration_text) ==
    LET mentioned == mention_re(narration_text)
    IN  Subsequence(mentioned, {i \in DOMAIN mentioned : mentioned[i] # SourceActorId})

\* C32: for a call without a give_item: when the turn removed exactly one
\* item from the source's inventory, the action or the narration holds a
\* give verb, the narration holds no refusal phrase and mentions an actor
\* other than the source, the first such actor, if it has a player row,
\* holds the removed item afterwards: its inventory is as it was when it
\* held the item already and has the item appended with the origin
\* "Received from <@source>" otherwise; when the narration holds a refusal
\* phrase or mentions no other actor, or the turn removed no item, the
\* players table is left as it was.
C32_FallbackTransfer ==
    [][(Transfers /\ op.args[4] = None) =>
        LET table   == op.args[1]
            out     == op'.value[1]
            removed == Removed(op.args[5], table)
            others  == OthersMentioned(op.args[3])
            verb    == give_re(op.args[2]) \/ give_re(op.args[3])
            refusal == refuse_re(op.args[3])
        IN  /\ ( /\ Len(removed) = 1
                 /\ verb
                 /\ ~refusal
                 /\ others # <<>>
                 /\ Key("campaign-1", others[1]) \in DOMAIN table ) =>
                  LET target_before == StoredInventory(table, others[1])
                      target_after  == StoredInventory(out, others[1])
                  IN  /\ Cardinality(ItemIndices(target_after, removed[1])) = 1
                      /\ IF Holds(table, others[1], removed[1])
                         THEN target_after = target_before
                         ELSE target_after =
                                Append(target_before,
                                       [name |-> removed[1],
                                        origin |-> "Received from <@1>"])
                      /\ StoredInventory(out, SourceActorId) =
                            StoredInventory(table, SourceActorId)
            /\ (refusal \/ others = <<>> \/ removed = <<>>) => out = table
      ]_vars

\* The source tossed the Rusty Key, which its turn removed, and the
\* narration has the target catch it: the call without a give_item has
\* appended the key to the target's empty inventory.
C32_Witness ==
    /\ op.name = "_apply_give_item_transfer"
    /\ op.args[4] = None
    /\ op.args[2] = TossAction
    /\ op.args[3] = CatchNarration
    /\ op.args[5] = <<Entry("Rusty Key", "Found in locker")>>
    /\ StoredInventory(op.args[1], SourceActorId) = <<>>
    /\ Key("campaign-1", TargetActorId) \in DOMAIN op.args[1]
    /\ StoredInventory(op.args[1], TargetActorId) = <<>>
    /\ StoredInventory(op.value[1], TargetActorId) =
          <<Entry("Rusty Key", "Received from <@1>")>>

\* The step is a call of _apply_calendar_update.
AppliesCalendar == op.name = "none" /\ op'.name = "_apply_calendar_update"

\* The last n entries of a sequence, or all of it.
LastOf(s, n) == IF Len(s) > n THEN SubSeq(s, Len(s) - n + 1, Len(s)) ELSE s

\* C39: for a call with an update that holds an add list: the calendar
\* stored has at most 10 events, no two of them with the same name but for
\* case and blanks, each with a fire_day of at least 1 and a description of
\* at most 200 characters; its names are the last 10 of: the stored events
\* that the update neither removes nor adds again, in their order, and then
\* the added events with a name, each at the place of its last addition;
\* every added name stands for the event added (created at the current game
\* time); and a stored event that is neither removed, nor added again, nor
\* followed by 10 or more events is still there as it was, overdue or not.
C39_CalendarAfterAdd ==
    [][(AppliesCalendar /\ op.args[3] # None /\ TheValue(op.args[3]).add # None) =>
        LET existing  == op.args[1]
            game_time == op.args[2]
            update    == TheValue(op.args[3])
            out       == op'.value[1]
            to_add    == TheValue(update.add)
            to_remove == IF update.remove = None THEN <<>> ELSE TheValue(update.remove)
            removed   == {EventKey(to_remove[i]) :
                             i \in {j \in DOMAIN to_remove : to_remove[j] # ""}}
            named     == {i \in DOMAIN to_add : strip(to_add[i].name) # ""}
            readded   == {EventKey(to_add[i].name) : i \in named}
            survivors == Subsequence(existing,
                            {i \in DOMAIN existing :
                                EventKey(existing[i].name) \notin removed \cup readded})
            latest    == Subsequence(to_add,
                            {i \in named :
                                ~\E j \in named :
                                    j > i /\ EventKey(to_add[j].name) = EventKey(to_add[i].name)})
            names     == [i \in DOMAIN survivors |-> survivors[i].name]
                         \o [i \in DOMAIN latest |-> strip(latest[i].name)]
        IN  /\ Len(out) <= 10
            /\ \A i, j \in DOMAIN out :
                  i # j => EventKey(out[i].name) # EventKey(out[j].name)
            /\ \A i \in DOMAIN out :
                  out[i].fire_day >= 1 /\ Len(out[i].description) <= 200
            /\ [i \in DOMAIN out |-> out[i].name] = LastOf(names, 10)
            /\ \A i \in DOMAIN out :
                  EventKey(out[i].name) \in readded =>
                      /\ out[i].created_day = JsonInt(game_time.day)
                      /\ out[i].created_hour = JsonInt(game_time.hour)
            /\ \A i \in DOMAIN survivors :
                  Len(names) - i < 10 =>
                      \E j \in DOMAIN out :
                          /\ out[j].name = survivors[i].name
                          /\ out[j].fire_day = survivors[i].fire_day.int
                          /\ out[j].description = survivors[i].description
                          /\ out[j].created_day = survivors[i].created_day
      ]_vars

\* On day 3 a calendar of ten events, the overdue Eclipse first, has had
\* " eclipse " with a description of 201 characters and Market added: the
\* stored Eclipse and event-1 are gone, the overdue event-2 is first, and
\* the new eclipse, its description cut to 200 characters, and Market are
\* last of ten.
C39_Witness ==
    /\ op.name = "_apply_calendar_update"
    /\ op.args[1] = <<StoredEvent("Eclipse", 1, 12)>> \o Events(9)
    /\ op.args[2].day = 3
    /\ op.args[3] # None
    /\ TheValue(op.args[3]).remove = None
    /\ TheValue(op.args[3]).add =
          Some(<<AddEntry(" eclipse ", JsonAbsent, JsonInt(2), "days", 201),
                 AddEntry("Market", JsonAbsent, JsonInt(0 - 30), "hours", 12)>>)
    /\ Len(op.value[1]) = 10
    /\ op.value[1][1].name = "event-2"
    /\ op.value[1][1].fire_day = 2
    /\ op.value[1][9].name = "eclipse"
    /\ op.value[1][9].fire_day = 5
    /\ Len(op.value[1][9].description) = 200
    /\ op.value[1][10].name = "Market"
    /\ op.value[1][10].fire_day = 2

\* The names of a list of inventory entries.
Names(entries) == [i \in DOMAIN entries |-> entries[i].name]

\* The names a player_state_update lists under a key, none without the key.
Listed(update, key) == IF key \in DOMAIN update THEN NAME_LISTS[update[key]] ELSE <<>>

\* C40: when a turn whose player_state_update holds inventory_add or
\* inventory_remove commits, the names of the player's stored inventory are
\* those of the inventory before, without the names removed and then with
\* the names added that it did not hold, whatever the case of the names, and
\* the stored player state holds neither the key inventory_add nor the key
\* inventory_remove.
C40_InventoryDeltaApplied ==
    [][\A k \in Caller :
        LET update == llm_output[k].player_state_update
            key    == Key(input[k].campaign_id, input[k].actor_id)
            before == parse_json_dict(phase_c[k].player.state_json)
            after  == parse_json_dict(players'[key].state_json)
        IN  (Commits(k) /\ DOMAIN update \cap {"inventory_add", "inventory_remove"} # {}) =>
                /\ Names(_get_inventory_rich(after)) =
                      Names(_apply_inventory_delta(_get_inventory_rich(before),
                                                   Listed(update, "inventory_add"),
                                                   Listed(update, "inventory_remove"),
                                                   ""))
                /\ "inventory_add" \notin DOMAIN after
                /\ "inventory_remove" \notin DOMAIN after
      ]_vars

\* The player picked up the Rusty Key in one turn, and the next turn, whose
\* update removes "rusty key", has returned ok: the stored inventory holds
\* the Rusty Key still, and the stored state holds the key inventory_remove.
C40_Witness ==
    \E k \in Caller :
        LET key   == Key(input[k].campaign_id, input[k].actor_id)
            state == parse_json_dict(players[key].state_json)
        IN  /\ result[k].status = "ok"
            /\ llm_output[k] = RemoveOutput
            /\ key \in DOMAIN players
            /\ "inventory_remove" \in DOMAIN state
            /\ Names(_get_inventory_rich(state)) = <<"Rusty Key">>

====
